---- MODULE Spec2Model ----
(***************************************************************************)
(* Trip recording core of TripSync: the per-user trip state machine, the   *)
(* sensor processor's smoothing windows, the route recorder and the        *)
(* orchestrator that wires them (backend/app/modules).                     *)
(*                                                                         *)
(* Units.  Speeds are integers in 1/KmhScale km/h (KmhScale = 600 makes    *)
(* the mean of up to five window entries exact).  Sample timestamps are    *)
(* whole seconds.  The server clock `now` is in microseconds.  Latitudes   *)
(* and longitudes are in 1e-5 degree.  An unset Optional is NoTime /       *)
(* NoTrip.                                                                 *)
(***************************************************************************)
EXTENDS Integers, Sequences, FiniteSets, TLC

VARIABLES
    now,               \* datetime.now(), microseconds
    config,            \* TripStateMachineManager._config, shared by every machine
    user_machines,     \* TripStateMachineManager._user_machines
    user_callbacks,    \* TripRecordingSystem._user_callbacks
    speed_windows,     \* SensorDataProcessor.speed_windows
    motion_analyzers,  \* SensorDataProcessor.motion_analyzers (motion_history)
    active_trips,      \* RouteRecorder._active_trips
    collection_tasks,  \* RouteRecorder._collection_tasks
    loop_tasks,        \* asyncio tasks created by the hooks, not yet run (FIFO)
    suspended,         \* process_sensor_input coroutines awaiting a batch flush
    next_inst,         \* number of TripStateMachine objects constructed so far
    last_op,           \* observer: the call made by the last step and its result
    trip_log,          \* observer: every trip start (id, user, trigger), in order
    db,                \* the calls made on the persistence collaborator, in order
    summary,           \* the value returned by the last stop_recording
    bg,                \* routers: the BackgroundTasks object of each request served
    hook_owner,        \* routers: per user, the request whose BackgroundTasks the
                       \*          hooks of the user's machine add to
    sm,                \* a TripStateMachine driven directly (unit level)
    sm_ts,             \* timestamp of the last sample fed to sm
    sm_run,            \* observer: the current run of at-or-above samples fed to sm
    sm_scen,           \* observer: position in the 59/1/59 script, or Off
    sm_op,             \* observer: the last call on sm, its input and outcome
    heartbeats,        \* the heartbeat tasks created and not yet terminated
    stopping,          \* stop_recording coroutines awaiting save_trip_record
    fn_in,             \* the list of points being assembled for extract_features
    fn_out             \* the last call of a stateless helper: arguments and result

sys_vars == <<now, config, user_machines, user_callbacks, speed_windows,
              motion_analyzers, active_trips, collection_tasks, heartbeats, loop_tasks,
              suspended, next_inst, last_op, trip_log, db, summary, bg, hook_owner>>
api_vars == <<bg, hook_owner>>
sm_vars == <<sm, sm_ts, sm_run, sm_scen, sm_op>>
fn_vars == <<fn_in, fn_out>>
co_vars == <<stopping>>
vars == <<now, config, user_machines, user_callbacks, speed_windows,
          motion_analyzers, active_trips, collection_tasks, heartbeats, loop_tasks,
          suspended, next_inst, last_op, trip_log, db, summary, bg, hook_owner,
          sm, sm_ts, sm_run, sm_scen, sm_op, fn_in, fn_out, stopping>>

-----------------------------------------------------------------------------
(* Program constants *)

KmhScale == 10 * 60   \* tenths of a km/h, times lcm(1..5) for the window mean
speed_threshold_kmh == 3
duration_threshold_seconds == 60
stop_duration_threshold_seconds == 60
gps_collection_interval_seconds == 45
MpsToKmhTimes10 == 36
UsPerMs == 1000
UsPerMinute == 60000000
UsPerSecond == 1000000
min_points_for_features == 10

NoTime == 0 - 1
NoTrip == <<>>
NoSummary == [kind |-> "none"]
Off == 0 - 1

TripConfig ==
    [speed_threshold_kmh |-> speed_threshold_kmh * KmhScale,
     duration_threshold_seconds |-> duration_threshold_seconds,
     stop_duration_threshold_seconds |-> stop_duration_threshold_seconds,
     gps_collection_interval_seconds |-> gps_collection_interval_seconds]

TripContext ==
    [trip_id |-> NoTrip,
     current_state |-> "idle",
     state_start_time |-> NoTime,
     last_sensor_data |-> NoTime,
     speed_above_threshold_start |-> NoTime,
     speed_below_threshold_start |-> NoTime]

\* TripStateMachine.__init__: a fresh context, no hooks.  inst tells objects apart.
TripStateMachine(inst) ==
    [context |-> TripContext, hooks |-> "none", inst |-> inst]

-----------------------------------------------------------------------------
(* TripStateMachine: the methods as functions of the machine m, the shared *)
(* configuration cfg and the clock t.  Each returns the machine after the  *)
(* call, the hook calls made (in order) and the method's result.           *)

\* strftime("%Y%m%d_%H%M%S_%f")[:-3]: the clock truncated to milliseconds.
FormatTimestamp(t) == t \div UsPerMs

_generate_trip_id(prefix, t) == <<prefix, FormatTimestamp(t)>>

\* The hooks of a machine: "none" (unset), or callables: "mock" returns,
\* "raising" raises when called, "orch" and "router" are the closures installed
\* by the orchestrator and by the endpoints.
HookKinds == {"mock", "raising"}

\* set_route_recorder_callbacks
set_route_recorder_callbacks(m, h) == [m EXCEPT !.hooks = h]

\* A hook call made by machine m: the argument, and the trip id the context
\* of m holds while the hook runs.
HookCalls(m, kind, trip_id) ==
    IF m.hooks = "none" THEN <<>>
    ELSE <<[hook |-> kind, trip_id |-> trip_id,
            context_trip_id |-> m.context.trip_id]>>

\* Mutant: the transition to Active leaves the debounce timer as it was.
_transition_to_active_keeps_timer(m, trip_id, t) ==
    LET m1 == [m EXCEPT !.context.current_state = "active",
                        !.context.trip_id = trip_id,
                        !.context.state_start_time = t,
                        !.context.speed_below_threshold_start = NoTime]
    IN  [m |-> m1, calls |-> HookCalls(m1, "start", trip_id)]

\* The context is assigned first, the hook is called last.
_transition_to_active(m, trip_id, t) ==
    LET m1 == [m EXCEPT !.context.current_state = "active",
                        !.context.trip_id = trip_id,
                        !.context.state_start_time = t,
                        !.context.speed_above_threshold_start = NoTime,
                        !.context.speed_below_threshold_start = NoTime]
    IN  [m |-> m1, calls |-> HookCalls(m1, "start", trip_id)]

\* Mutant: the transition to Idle forgets to clear the trip id.
_transition_to_idle_keeps_trip(m, t) ==
    [m |-> [m EXCEPT !.context.current_state = "idle",
                     !.context.state_start_time = t,
                     !.context.speed_above_threshold_start = NoTime,
                     !.context.speed_below_threshold_start = NoTime],
     calls |-> IF m.context.trip_id # NoTrip
               THEN HookCalls(m, "stop", m.context.trip_id)
               ELSE <<>>]

\* Mutant: an exception raised by on_trip_stop leaves _transition_to_idle
\* before the context is reset.
_transition_to_idle_propagates(m, t) ==
    IF m.hooks = "raising" /\ m.context.trip_id # NoTrip
    THEN [m |-> m, calls |-> HookCalls(m, "stop", m.context.trip_id)]
    ELSE [m |-> [m EXCEPT !.context.current_state = "idle",
                          !.context.trip_id = NoTrip,
                          !.context.state_start_time = t,
                          !.context.speed_above_threshold_start = NoTime,
                          !.context.speed_below_threshold_start = NoTime],
          calls |-> IF m.context.trip_id # NoTrip
                    THEN HookCalls(m, "stop", m.context.trip_id)
                    ELSE <<>>]

\* Mutant: the context is reset before on_trip_stop is called.
_transition_to_idle_clears_first(m, t) ==
    LET m1 == [m EXCEPT !.context.current_state = "idle",
                        !.context.trip_id = NoTrip,
                        !.context.state_start_time = t,
                        !.context.speed_above_threshold_start = NoTime,
                        !.context.speed_below_threshold_start = NoTime]
    IN  [m |-> m1,
         calls |-> IF m.context.trip_id # NoTrip
                   THEN HookCalls(m1, "stop", m.context.trip_id)
                   ELSE <<>>]

\* Mutant: the transition to Idle leaves the stop timer as it was.
_transition_to_idle_keeps_timer(m, t) ==
    [m |-> [m EXCEPT !.context.current_state = "idle",
                     !.context.trip_id = NoTrip,
                     !.context.state_start_time = t,
                     !.context.speed_above_threshold_start = NoTime],
     calls |-> IF m.context.trip_id # NoTrip
               THEN HookCalls(m, "stop", m.context.trip_id)
               ELSE <<>>]

\* The hook is called first, inside try/except: whether it returns or raises
\* (hooks = "raising"), the assignments that follow are executed.
_transition_to_idle(m, t) ==
    [m |-> [m EXCEPT !.context.current_state = "idle",
                     !.context.trip_id = NoTrip,
                     !.context.state_start_time = t,
                     !.context.speed_above_threshold_start = NoTime,
                     !.context.speed_below_threshold_start = NoTime],
     calls |-> IF m.context.trip_id # NoTrip
               THEN HookCalls(m, "stop", m.context.trip_id)
               ELSE <<>>]

\* Mutants of the Idle handler: a strict comparison of the elapsed time, and a
\* dip below the threshold that leaves the debounce timer running.
_handle_idle_state_strict(m, cfg, speed, ts, t) ==
    IF speed >= cfg.speed_threshold_kmh
    THEN IF m.context.speed_above_threshold_start = NoTime
         THEN [m |-> [m EXCEPT !.context.speed_above_threshold_start = ts],
               calls |-> <<>>, state_changed |-> FALSE]
         ELSE IF ts - m.context.speed_above_threshold_start
                    > cfg.duration_threshold_seconds
              THEN LET r == _transition_to_active(m, _generate_trip_id("auto", t), t)
                   IN  [m |-> r.m, calls |-> r.calls, state_changed |-> TRUE]
              ELSE [m |-> m, calls |-> <<>>, state_changed |-> FALSE]
    ELSE [m |-> [m EXCEPT !.context.speed_above_threshold_start = NoTime],
          calls |-> <<>>, state_changed |-> FALSE]

_handle_idle_state_keeps_timer(m, cfg, speed, ts, t) ==
    IF speed >= cfg.speed_threshold_kmh
    THEN IF m.context.speed_above_threshold_start = NoTime
         THEN [m |-> [m EXCEPT !.context.speed_above_threshold_start = ts],
               calls |-> <<>>, state_changed |-> FALSE]
         ELSE IF ts - m.context.speed_above_threshold_start
                    >= cfg.duration_threshold_seconds
              THEN LET r == _transition_to_active(m, _generate_trip_id("auto", t), t)
                   IN  [m |-> r.m, calls |-> r.calls, state_changed |-> TRUE]
              ELSE [m |-> m, calls |-> <<>>, state_changed |-> FALSE]
    ELSE [m |-> m, calls |-> <<>>, state_changed |-> FALSE]

_handle_idle_state(m, cfg, speed, ts, t) ==
    IF speed >= cfg.speed_threshold_kmh
    THEN IF m.context.speed_above_threshold_start = NoTime
         THEN [m |-> [m EXCEPT !.context.speed_above_threshold_start = ts],
               calls |-> <<>>, state_changed |-> FALSE]
         ELSE IF ts - m.context.speed_above_threshold_start
                    >= cfg.duration_threshold_seconds
              THEN LET r == _transition_to_active(m, _generate_trip_id("auto", t), t)
                   IN  [m |-> r.m, calls |-> r.calls, state_changed |-> TRUE]
              ELSE [m |-> m, calls |-> <<>>, state_changed |-> FALSE]
    ELSE [m |-> [m EXCEPT !.context.speed_above_threshold_start = NoTime],
          calls |-> <<>>, state_changed |-> FALSE]

\* Mutant of the Active handler: a sample at or above the threshold leaves the
\* stop timer running.
_handle_active_state_keeps_timer(m, cfg, speed, ts, t) ==
    IF speed < cfg.speed_threshold_kmh
    THEN IF m.context.speed_below_threshold_start = NoTime
         THEN [m |-> [m EXCEPT !.context.speed_below_threshold_start = ts],
               calls |-> <<>>, state_changed |-> FALSE]
         ELSE IF ts - m.context.speed_below_threshold_start
                    >= cfg.stop_duration_threshold_seconds
              THEN LET r == _transition_to_idle(m, t)
                   IN  [m |-> r.m, calls |-> r.calls, state_changed |-> TRUE]
              ELSE [m |-> m, calls |-> <<>>, state_changed |-> FALSE]
    ELSE [m |-> m, calls |-> <<>>, state_changed |-> FALSE]

_handle_active_state(m, cfg, speed, ts, t) ==
    IF speed < cfg.speed_threshold_kmh
    THEN IF m.context.speed_below_threshold_start = NoTime
         THEN [m |-> [m EXCEPT !.context.speed_below_threshold_start = ts],
               calls |-> <<>>, state_changed |-> FALSE]
         ELSE IF ts - m.context.speed_below_threshold_start
                    >= cfg.stop_duration_threshold_seconds
              THEN LET r == _transition_to_idle(m, t)
                   IN  [m |-> r.m, calls |-> r.calls, state_changed |-> TRUE]
              ELSE [m |-> m, calls |-> <<>>, state_changed |-> FALSE]
    ELSE [m |-> [m EXCEPT !.context.speed_below_threshold_start = NoTime],
          calls |-> <<>>, state_changed |-> FALSE]

\* process_sensor_data: record the sample, dispatch on the state before the call.
process_sensor_data(m, cfg, speed, ts, t) ==
    LET m1 == [m EXCEPT !.context.last_sensor_data = ts]
        r == IF m1.context.current_state = "idle"
             THEN _handle_idle_state(m1, cfg, speed, ts, t)
             ELSE _handle_active_state(m1, cfg, speed, ts, t)
    IN  [m |-> r.m, calls |-> r.calls, state_changed |-> r.state_changed,
         current_state |-> r.m.context.current_state,
         trip_id |-> r.m.context.trip_id]

\* Mutant: manual_start_trip without the early return for an active trip.
manual_start_trip_always(m, user_id, t) ==
    LET trip_id == _generate_trip_id(user_id, t)
        r == _transition_to_active(m, trip_id, t)
    IN  [m |-> r.m, calls |-> r.calls, ret |-> trip_id]

manual_start_trip(m, user_id, t) ==
    IF m.context.current_state = "active"
    THEN [m |-> m, calls |-> <<>>, ret |-> m.context.trip_id]
    ELSE LET trip_id == _generate_trip_id(user_id, t)
             r == _transition_to_active(m, trip_id, t)
         IN  [m |-> r.m, calls |-> r.calls, ret |-> trip_id]

\* Mutant: manual_stop_trip without the early return when no trip is active.
manual_stop_trip_always(m, t) ==
    LET r == _transition_to_idle(m, t)
    IN  [m |-> r.m, calls |-> r.calls, ret |-> m.context.current_state = "active"]

manual_stop_trip(m, t) ==
    IF m.context.current_state # "active"
    THEN [m |-> m, calls |-> <<>>, ret |-> FALSE]
    ELSE LET r == _transition_to_idle(m, t)
         IN  [m |-> r.m, calls |-> r.calls, ret |-> TRUE]

-----------------------------------------------------------------------------
(* Bounds of the model *)

MaxTime == 125      \* unit level: timestamps fed to sm are 0..MaxTime
MaxDt == 2          \* unit level: consecutive samples are 0..MaxDt seconds apart
SpeedLow == 1       \* km/h, a speed below the default threshold
SpeedHigh == 5      \* km/h, a speed above the default threshold

MaxOps == 3         \* Spec: requests served in one behaviour
MaxStreamOps == 5   \* SpecStream: samples processed in one behaviour
MaxSpeedMps == 2    \* speed_mps of a raw sample is 0 or MaxSpeedMps
TsStep == 60        \* raw sample timestamps are multiples of TsStep ...
MaxTsSteps == 1     \* ... up to MaxTsSteps * TsStep
LatFar == 20        \* raw latitudes are 0 or LatFar (1e-5 degree, about 22 m)
TickUs == 1000      \* the clock advances TickUs microseconds at a time ...
MaxTicks == 1       \* ... at most MaxTicks times
MaxInst == 3        \* TripStateMachine objects constructed in one behaviour
MaxSuspended == 1   \* coroutines suspended in a flush at one time
\* batch_size of the recorder: 100 in the source (route_recorder.py:66), scaled
\* down so that a behaviour of MaxOps requests reaches a flush.
BatchSize == 2

MaxApiOps == 3      \* SpecApi: requests served by the endpoints in one behaviour
MaxAsyncOps == 4    \* SpecRecAsync: calls made on the recorder in one behaviour
MaxDistOps == 5     \* SpecDist: calls made on the recorder in one behaviour
LatJump == 1800     \* a latitude about 2 km from latitudes 0..LatFar
MaxCoOps == 5       \* SpecRecCo: calls made on the recorder in one behaviour
MaxStopping == 2    \* stop_recording coroutines suspended at one time
MaxBeats == 1       \* wake-ups counted for one heartbeat task
MaxWinOps == 6      \* SpecWin: samples processed in one behaviour
MaxNumOps == 6      \* SpecNum: calls made on the recorder in one behaviour
MaxPoints == 11     \* SpecFn: points in one input of extract_features
MaxRecOps == 5      \* SpecRec: calls made on the recorder in one behaviour
LatNear == 5        \* a latitude within min_distance_filter of latitude 0 (5.5 m)
AccPoor == 75       \* an accuracy the normalizer accepts and the recorder rejects

Users == {"u1", "u2"}
SmUser == "u1"

-----------------------------------------------------------------------------
(* Initial state: the module-level singletons right after import *)

SysInit ==
    /\ now = 0
    /\ config = TripConfig
    /\ user_machines = <<>>
    /\ user_callbacks = {}
    /\ speed_windows = <<>>
    /\ motion_analyzers = <<>>
    /\ active_trips = <<>>
    /\ collection_tasks = {}
    /\ heartbeats = {}
    /\ stopping = <<>>
    /\ loop_tasks = <<>>
    /\ suspended = <<>>
    /\ next_inst = 0
    /\ last_op = [op |-> "init", user |-> "", n |-> 0, ok |-> TRUE,
                  trip_id |-> <<>>, note |-> "", calls |-> <<>>]
    /\ trip_log = <<>>
    /\ db = <<>>
    /\ summary = NoSummary
    /\ bg = <<>>
    /\ hook_owner = <<>>

FreshRun == [ok |-> TRUE, first |-> NoTime, ups |-> 0]
BrokenRun == [ok |-> FALSE, first |-> NoTime, ups |-> 0]

SmInit ==
    /\ sm = [TripStateMachine(0) EXCEPT !.hooks = "mock"]
    /\ sm_ts = 0
    /\ sm_run = FreshRun
    /\ sm_scen = 0
    /\ sm_op = [op |-> "init", speed |-> 0, ts |-> 0, state_changed |-> FALSE,
                calls |-> <<>>, ret_id |-> NoTrip, ret_ok |-> FALSE]

FnInit ==
    /\ fn_in = <<>>
    /\ fn_out = [op |-> "init"]

Init == SysInit /\ SmInit /\ FnInit

-----------------------------------------------------------------------------
(* Unit level: one TripStateMachine fed directly, as its own callers and   *)
(* tests would: process_sensor_data, manual_start_trip, manual_stop_trip.  *)

SmSpeeds == {SpeedLow * KmhScale, speed_threshold_kmh * KmhScale, SpeedHigh * KmhScale}

\* The script of the spec's debounce example: duration-1 samples one second
\* apart at SpeedHigh, one at SpeedLow, duration-1 more at SpeedHigh.
ScriptLen == 2 * duration_threshold_seconds - 1
Script(k) ==
    IF k = duration_threshold_seconds THEN SpeedLow * KmhScale ELSE SpeedHigh * KmhScale

SmProcessSensorData(speed, dt) ==
    LET ts == sm_ts + dt
        r == process_sensor_data(sm, config, speed, ts, now)
        above == speed >= config.speed_threshold_kmh
        up == sm.context.current_state = "idle" /\ r.current_state = "active"
    IN  /\ ts <= MaxTime
        /\ sm' = r.m
        /\ sm_ts' = ts
        /\ sm_op' = [op |-> "sample", speed |-> speed, ts |-> ts,
                     state_changed |-> r.state_changed, calls |-> r.calls,
                     ret_id |-> r.trip_id, ret_ok |-> TRUE]
        /\ sm_run' = IF above
                     THEN IF sm_run.ok
                          THEN [ok |-> TRUE,
                                first |-> IF sm_run.first = NoTime THEN ts ELSE sm_run.first,
                                ups |-> sm_run.ups + (IF up THEN 1 ELSE 0)]
                          ELSE sm_run
                     ELSE IF r.current_state = "idle" THEN FreshRun ELSE BrokenRun
        /\ sm_scen' = IF sm_scen # Off /\ sm_scen < ScriptLen /\ dt = 1
                         /\ speed = Script(sm_scen + 1)
                      THEN sm_scen + 1 ELSE Off
        /\ UNCHANGED <<sys_vars, fn_vars, co_vars>>

SmManualStart ==
    LET r == manual_start_trip(sm, SmUser, now)
    IN  /\ sm' = r.m
        /\ sm_op' = [op |-> "manual_start", speed |-> 0, ts |-> sm_ts,
                     state_changed |-> sm.context.current_state # "active",
                     calls |-> r.calls, ret_id |-> r.ret, ret_ok |-> TRUE]
        /\ sm_run' = BrokenRun
        /\ sm_scen' = Off
        /\ UNCHANGED <<sm_ts, sys_vars, fn_vars, co_vars>>

SmManualStop ==
    LET r == manual_stop_trip(sm, now)
    IN  /\ sm' = r.m
        /\ sm_op' = [op |-> "manual_stop", speed |-> 0, ts |-> sm_ts,
                     state_changed |-> r.ret, calls |-> r.calls,
                     ret_id |-> NoTrip, ret_ok |-> r.ret]
        /\ sm_run' = IF r.ret THEN FreshRun ELSE sm_run
        /\ sm_scen' = Off
        /\ UNCHANGED <<sm_ts, sys_vars, fn_vars, co_vars>>

SmSetCallbacks(h) ==
    /\ sm.hooks # h
    /\ sm' = set_route_recorder_callbacks(sm, h)
    /\ sm_op' = [op |-> "set_callbacks", speed |-> 0, ts |-> sm_ts,
                 state_changed |-> FALSE, calls |-> <<>>, ret_id |-> NoTrip,
                 ret_ok |-> TRUE]
    /\ UNCHANGED <<sm_ts, sm_run, sm_scen, sys_vars, fn_vars, co_vars>>

SmNext ==
    \/ \E speed \in SmSpeeds, dt \in 0..MaxDt : SmProcessSensorData(speed, dt)
    \/ SmManualStart
    \/ SmManualStop
    \/ \E h \in HookKinds : SmSetCallbacks(h)

SpecSM == Init /\ [][SmNext]_vars

-----------------------------------------------------------------------------
(* Dictionaries *)

Put(f, k, v) == [x \in DOMAIN f \cup {k} |-> IF x = k THEN v ELSE f[x]]
Del(f, k) == [x \in DOMAIN f \ {k} |-> f[x]]

RECURSIVE SeqSum(_)
SeqSum(q) == IF q = <<>> THEN 0 ELSE Head(q) + SeqSum(Tail(q))

Abs(x) == IF x < 0 THEN 0 - x ELSE x

-----------------------------------------------------------------------------
(* SensorDataProcessor *)

ValidatorConfig ==
    [max_accuracy_threshold |-> 100,
     max_speed_kmh |-> 200,
     lat_min |-> (0 - 90) * 100000, lat_max |-> 90 * 100000,
     lon_min |-> (0 - 180) * 100000, lon_max |-> 180 * 100000]

ProcessorConfig == [speed_smoothing_window |-> 5, motion_window_size |-> 10]

\* speed_mps * 3.6, in 1/KmhScale km/h
MpsToKmh(speed_mps) == speed_mps * MpsToKmhTimes10 * (KmhScale \div 10)

validate_gps_data(raw) ==
    /\ ValidatorConfig.lat_min <= raw.latitude
    /\ raw.latitude <= ValidatorConfig.lat_max
    /\ ValidatorConfig.lon_min <= raw.longitude
    /\ raw.longitude <= ValidatorConfig.lon_max
    /\ raw.accuracy <= ValidatorConfig.max_accuracy_threshold
    /\ MpsToKmh(raw.speed_mps) <= ValidatorConfig.max_speed_kmh * KmhScale

\* Mutant: a window without maxlen.
DequeAppend_unbounded(q, x, n) == Append(q, x)

\* deque(maxlen=n).append(x)
DequeAppend(q, x, n) ==
    IF Len(q) >= n THEN Append(Tail(q), x) ELSE Append(q, x)

\* _process_speed: the user's window after the sample, and its mean
_process_speed(windows, u, raw) ==
    LET old == IF u \in DOMAIN windows THEN windows[u] ELSE <<>>
        new == DequeAppend(old, MpsToKmh(raw.speed_mps),
                           ProcessorConfig.speed_smoothing_window)
    IN  [windows |-> Put(windows, u, new),
         speed_kmh |-> SeqSum(new) \div Len(new)]

\* _process_motion_data: reached only when the sample has an accelerometer triple
_process_motion_data(analyzers, u, raw) ==
    IF raw.accel = NoTime
    THEN analyzers
    ELSE LET old == IF u \in DOMAIN analyzers THEN analyzers[u] ELSE <<>>
         IN  Put(analyzers, u,
                 DequeAppend(old, raw.accel, ProcessorConfig.motion_window_size))

\* Mutant: the sample is smoothed before it is validated.
sensor_process_sensor_data_late_check(windows, analyzers, u, raw) ==
    LET sp == _process_speed(windows, u, raw)
    IN  [valid |-> validate_gps_data(raw), windows |-> sp.windows,
         analyzers |-> _process_motion_data(analyzers, u, raw),
         speed_kmh |-> sp.speed_kmh]

\* SensorDataProcessor.process_sensor_data: None (valid false) for a sample the
\* validator rejects, else the windows after the sample and the smoothed speed
sensor_process_sensor_data(windows, analyzers, u, raw) ==
    IF ~validate_gps_data(raw)
    THEN [valid |-> FALSE, windows |-> windows, analyzers |-> analyzers,
          speed_kmh |-> 0]
    ELSE LET sp == _process_speed(windows, u, raw)
         IN  [valid |-> TRUE, windows |-> sp.windows,
              analyzers |-> _process_motion_data(analyzers, u, raw),
              speed_kmh |-> sp.speed_kmh]

-----------------------------------------------------------------------------
(* ActivityRecognitionProcessor.process_activity.  A label is its letters  *)
(* (written here in lower case) and the case it is spelled in; no label is *)
(* None.  Confidence is in tenths, NoTime for None.                        *)

LabelCases == {"lower", "upper", "mixed"}
Label(letters, case) == [letters |-> letters, case |-> case]
NoLabel == Label("", "lower")

\* str.upper()
Upper(l) == Label(l.letters, "upper")

\* activity_mapping: the keys as they are spelled in the dictionary
activity_mapping ==
    {[key |-> Label("in_vehicle", "upper"), value |-> "in_vehicle"],
     [key |-> Label("on_bicycle", "upper"), value |-> "on_bicycle"],
     [key |-> Label("on_foot", "upper"), value |-> "on_foot"],
     [key |-> Label("running", "upper"), value |-> "running"],
     [key |-> Label("still", "upper"), value |-> "still"],
     [key |-> Label("tilting", "upper"), value |-> "tilting"],
     [key |-> Label("walking", "upper"), value |-> "walking"],
     [key |-> Label("automotive", "lower"), value |-> "in_vehicle"],
     [key |-> Label("cycling", "lower"), value |-> "on_bicycle"],
     [key |-> Label("running", "lower"), value |-> "running"],
     [key |-> Label("walking", "lower"), value |-> "walking"],
     [key |-> Label("stationary", "lower"), value |-> "still"],
     [key |-> Label("in_vehicle", "lower"), value |-> "in_vehicle"],
     [key |-> Label("on_bicycle", "lower"), value |-> "on_bicycle"],
     [key |-> Label("on_foot", "lower"), value |-> "on_foot"],
     [key |-> Label("still", "lower"), value |-> "still"],
     [key |-> Label("unknown", "lower"), value |-> "unknown"]}

\* dict.get(key, ActivityType.UNKNOWN)
MappingGet(key) ==
    IF \E e \in activity_mapping : e.key = key
    THEN (CHOOSE e \in activity_mapping : e.key = key).value
    ELSE "unknown"

\* process_activity: the key looked up is the label in upper case, "UNKNOWN"
\* for no label; the confidence is `confidence or 0.5` clamped to [0, 1]
process_activity(label, confidence) ==
    LET key == IF label # NoLabel THEN Upper(label) ELSE Label("unknown", "upper")
        c == IF confidence = NoTime \/ confidence = 0 THEN 5 ELSE confidence
    IN  [activity |-> MappingGet(key),
         confidence |-> IF c > 10 THEN 10 ELSE IF c < 0 THEN 0 ELSE c]

-----------------------------------------------------------------------------
(* FeatureExtractor.extract_features.  An optional key of a point is a     *)
(* record: has (the key is in the dictionary) and val (NoTime for None).   *)

Field(has, val) == [has |-> has, val |-> val]
\* dict.get(key, default)
Get(field, default) == IF field.has THEN field.val ELSE default

RequiredFields ==
    {"avg_speed_kmh", "max_speed_kmh", "speed_variance", "speed_percentile_95",
     "avg_acceleration", "max_acceleration", "acceleration_variance",
     "stop_frequency", "direction_changes", "distance_straight_line",
     "distance_actual", "duration_minutes", "time_of_day", "day_of_week",
     "activity_confidence", "activity_consistency", "avg_accuracy",
     "gps_point_count"}
OptionalFields == {"motion_variance", "stationary_periods"}

\* sorted(gps_points, key=timestamp)
RECURSIVE InsertByTimestamp(_, _)
InsertByTimestamp(sorted, p) ==
    IF sorted = <<>> THEN <<p>>
    ELSE IF sorted[Len(sorted)].timestamp <= p.timestamp THEN Append(sorted, p)
    ELSE Append(InsertByTimestamp(SubSeq(sorted, 1, Len(sorted) - 1), p),
                sorted[Len(sorted)])
RECURSIVE SortByTimestamp(_)
SortByTimestamp(pts) ==
    IF pts = <<>> THEN <<>>
    ELSE InsertByTimestamp(SortByTimestamp(SubSeq(pts, 1, Len(pts) - 1)), pts[Len(pts)])

\* Each extractor: the keys of the dictionary it returns, and whether it raised.
_extract_speed_features(points) ==
    LET speeds == SelectSeq(points, LAMBDA p : Get(p.speed_kmh, NoTime) # NoTime)
    IN  [raised |-> FALSE,
         keys |-> IF speeds = <<>>
                  THEN {"avg_speed_kmh", "max_speed_kmh", "speed_variance",
                        "speed_percentile_95"}
                  ELSE {"avg_speed_kmh", "max_speed_kmh", "speed_variance",
                        "speed_percentile_95", "avg_acceleration", "max_acceleration",
                        "acceleration_variance"}]

\* point.get("speed_kmh", 0) < stop_speed_threshold raises for a None speed
_extract_movement_features(points) ==
    [raised |-> \E i \in 1..Len(points) : Get(points[i].speed_kmh, 0) = NoTime,
     keys |-> {"stop_frequency", "direction_changes", "distance_actual",
               "distance_straight_line"}]

_extract_time_features(points) ==
    [raised |-> FALSE, keys |-> {"duration_minutes", "time_of_day", "day_of_week"}]

_extract_gps_features(points) ==
    [raised |-> FALSE,
     keys |-> {"avg_accuracy", "gps_point_count", "activity_confidence",
               "activity_consistency"}]

_extract_sensor_features(sensor_data) ==
    [raised |-> FALSE,
     keys |-> (IF \E i \in 1..Len(sensor_data) : sensor_data[i].accel
               THEN {"motion_variance"} ELSE {})
              \cup (IF sensor_data # <<>> THEN {"activity_confidence"} ELSE {})]

NoFeatures == [kind |-> "none"]

\* extract_features: None, or the MLFeatures object built from the keyword
\* arguments of the five dictionaries.  The constructor raises when a keyword
\* is given twice, is not a field, or a field without default is missing; any
\* exception makes the result None.
extract_features(gps_points, sensor_data) ==
    IF Len(gps_points) < min_points_for_features THEN NoFeatures
    ELSE LET sorted_points == SortByTimestamp(gps_points)
             speed == _extract_speed_features(sorted_points)
             movement == _extract_movement_features(sorted_points)
             time == _extract_time_features(sorted_points)
             gps == _extract_gps_features(sorted_points)
             sensor == IF sensor_data # <<>> THEN _extract_sensor_features(sensor_data)
                       ELSE [raised |-> FALSE, keys |-> {}]
             parts == <<speed, movement, time, gps, sensor>>
             keys == UNION {parts[i].keys : i \in 1..Len(parts)}
             twice == \E i, j \in 1..Len(parts) :
                          i # j /\ parts[i].keys \cap parts[j].keys # {}
         IN  IF \/ \E i \in 1..Len(parts) : parts[i].raised
                \/ twice
                \/ ~(keys \subseteq RequiredFields \cup OptionalFields)
                \/ ~(RequiredFields \subseteq keys)
             THEN NoFeatures
             ELSE [kind |-> "features", keys |-> keys,
                   gps_point_count |-> Len(sorted_points)]

-----------------------------------------------------------------------------
(* SimpleMLClassifier.  Feature values are in 1/ValScale of their unit     *)
(* (km/h, km/h per second, stops per minute).  A score s in [0, 1] is the  *)
(* integer s * ScoreScale; ScoreScale is a multiple of every denominator   *)
(* that occurs, so the scores are exact.                                   *)

ValScale == 10
ScoreScale == ValScale * 16 * 9 * 25 * 7 * 17

Modes == <<"walking", "cycling", "car", "bus", "train">>

\* _initialize_classification_rules: (min, max) per mode
speed_thresholds ==
    [walking |-> <<0, 8>>, cycling |-> <<8, 25>>, car |-> <<15, 120>>,
     bus |-> <<10, 80>>, train |-> <<30, 200>>]
acceleration_thresholds ==
    [walking |-> <<0, 2>>, cycling |-> <<0, 3>>, car |-> <<0, 5>>,
     bus |-> <<0, 4>>, train |-> <<0, 3>>]
\* stops per hour
stop_frequency_thresholds ==
    [walking |-> <<0, 10>>, cycling |-> <<0, 5>>, car |-> <<2, 20>>,
     bus |-> <<5, 30>>, train |-> <<1, 10>>]

\* max(0.0, 1.0 - num / den), for den > 0
OneMinus(num, den) ==
    IF num >= den THEN 0 ELSE ScoreScale - (ScoreScale \div den) * num

\* _score_in_range(value, (min_val, max_val)); value in 1/ValScale
_score_in_range(value, range) ==
    LET min_val == range[1] * ValScale
        max_val == range[2] * ValScale
    IN  IF min_val <= value /\ value <= max_val
        THEN IF max_val - min_val = 0 THEN ScoreScale
             ELSE OneMinus(Abs(2 * value - (min_val + max_val)), max_val - min_val)
        ELSE IF value < min_val
        THEN IF min_val = 0 THEN 0 ELSE OneMinus(2 * (min_val - value), min_val)
        ELSE IF max_val = 0 THEN 0 ELSE OneMinus(2 * (value - max_val), max_val)

\* Mutant: the stop-frequency factor is scored on stops per hour.
_calculate_mode_score_per_hour(features, mode) ==
    (4 * _score_in_range(features.avg_speed_kmh, speed_thresholds[mode])
     + 3 * _score_in_range(features.avg_acceleration, acceleration_thresholds[mode])
     + 3 * _score_in_range(60 * features.stop_frequency,
                           stop_frequency_thresholds[mode])) \div 10

\* _calculate_mode_score: weights 0.4, 0.3, 0.3, divided by their sum
_calculate_mode_score(features, mode) ==
    (4 * _score_in_range(features.avg_speed_kmh, speed_thresholds[mode])
     + 3 * _score_in_range(features.avg_acceleration, acceleration_thresholds[mode])
     + 3 * _score_in_range(features.stop_frequency,
                           stop_frequency_thresholds[mode])) \div 10

\* Mutant: the last mode of the highest score is chosen, with the score of
\* the first mode as confidence.
classify_transport_mode_last(features) ==
    LET scores == [i \in 1..Len(Modes) |-> _calculate_mode_score(features, Modes[i])]
        best == CHOOSE i \in 1..Len(Modes) :
                    /\ \A j \in 1..Len(Modes) : scores[j] <= scores[i]
                    /\ \A j \in i + 1..Len(Modes) : scores[j] < scores[i]
    IN  [mode |-> Modes[best], confidence |-> scores[1], scores |-> scores]

\* classify_transport_mode: max(scores, key=scores.get) is the first mode, in
\* the order the scores were entered, of the highest score
classify_transport_mode(features) ==
    LET scores == [i \in 1..Len(Modes) |-> _calculate_mode_score(features, Modes[i])]
        best == CHOOSE i \in 1..Len(Modes) :
                    /\ \A j \in 1..Len(Modes) : scores[j] <= scores[i]
                    /\ \A j \in 1..i - 1 : scores[j] < scores[i]
    IN  [mode |-> Modes[best], confidence |-> scores[best], scores |-> scores]

-----------------------------------------------------------------------------
(* RouteRecorder *)

RecorderConfig ==
    [gps_collection_interval |-> 45,
     max_accuracy_threshold |-> 50,
     min_distance_filter |-> 10,
     batch_size |-> BatchSize]

TripRecord(trip_id, user_id, t) ==
    [trip_id |-> trip_id, user_id |-> user_id, start_time |-> t,
     end_time |-> NoTime, gps_points |-> <<>>, total_distance |-> NoTime,
     status |-> "recording"]

_validate_gps_data(gps) ==
    /\ (0 - 90) * 100000 <= gps.latitude /\ gps.latitude <= 90 * 100000
    /\ (0 - 180) * 100000 <= gps.longitude /\ gps.longitude <= 180 * 100000
    /\ gps.accuracy <= RecorderConfig.max_accuracy_threshold

\* geodesic(...).meters for two points of one meridian, in centimetres:
\* 1e-5 degree of latitude is about 1.11 m.
_calculate_distance_between_points(p, q) == 111 * Abs(p.latitude - q.latitude)

\* Mutant: the distance filter lets every point through.
_should_add_point_always(rec, point) == TRUE

_should_add_point(rec, point) ==
    \/ rec.gps_points = <<>>
    \/ _calculate_distance_between_points(rec.gps_points[Len(rec.gps_points)], point)
           >= RecorderConfig.min_distance_filter * 100

\* _calculate_distance, in centimetres: the sum of the steps shorter than 1 km
RECURSIVE _calculate_distance(_)
_calculate_distance(pts) ==
    IF Len(pts) < 2 THEN 0
    ELSE LET d == _calculate_distance_between_points(pts[1], pts[2])
         IN  (IF d < 1000 * 100 THEN d ELSE 0) + _calculate_distance(Tail(pts))

\* What the persistence collaborator handed to the recorder does when called.
\* A batch save returns, raises, does not exist on the collaborator (the
\* attribute lookup raises before any call is made), or suspends the caller.
FlushOutcomes == {"returns", "raises", "no_method", "suspend"}
\* Finalization: post is whether an exception occurs inside _post_process_trip,
\* save what save_trip_record does, lookup what the query for the saved trip's
\* database id yields.
StopEnvs ==
    {e \in [post : {"ok", "raises"}, save : {"ok", "fails", "raises"},
            lookup : {"found", "none", "raises"}] :
        e.save # "ok" => e.lookup = "found"}
\* the outcomes that make a difference for a record
StopEnvsFor(rec) ==
    {e \in StopEnvs : rec.gps_points = <<>> => (e.post = "ok" /\ e.lookup = "found")}

DbCall(name, trip_id, points, data, outcome) ==
    [call |-> name, trip_id |-> trip_id, points |-> points, data |-> data,
     outcome |-> outcome]

\* The heartbeat tasks: asyncio.create_task(_gps_collection_loop(trip_id)).  A
\* task is "live" from its creation until Task.cancel() is called on it, then
\* "cancelled" until the event loop runs it for the last time; beats counts
\* the times it woke from its sleep.  entry says that the table
\* _collection_tasks holds this task under its trip id; inst tells the live
\* tasks of one trip id apart.  Cancelled tasks of one trip id are not told
\* apart.
HeartbeatTask(trip_id) ==
    [trip_id |-> trip_id, state |-> "live", beats |-> 0, entry |-> TRUE, inst |-> 0]
cancel(h) ==
    [trip_id |-> h.trip_id, state |-> "cancelled", beats |-> 0, entry |-> FALSE,
     inst |-> 0]

\* asyncio.create_task(self._gps_collection_loop(trip_id)) followed by
\* self._collection_tasks[trip_id] = task: a new live task; the assignment
\* replaces the task the table held under that trip id, which goes on running.
create_task(hb, trip_id) ==
    LET used == {h.inst : h \in {g \in hb : g.trip_id = trip_id /\ g.state = "live"}}
        inst == CHOOSE n \in 0..Cardinality(used) : n \notin used
    IN  {IF h.trip_id = trip_id THEN [h EXCEPT !.entry = FALSE] ELSE h : h \in hb}
            \cup {[HeartbeatTask(trip_id) EXCEPT !.inst = inst]}

\* Mutant: the task whose entry is deleted from the table is not cancelled.
HeartbeatsAfter_no_cancel(hb, tasks, tasks2) ==
    LET kept == {IF h.entry /\ h.trip_id \in tasks \ tasks2
                 THEN [h EXCEPT !.entry = FALSE] ELSE h : h \in hb}
    IN  kept \cup {HeartbeatTask(t) : t \in tasks2 \ tasks}

\* The tasks after a call that took the table from tasks to tasks2:
\* start_recording creates the task whose entry it adds, stop_recording calls
\* cancel() on the task whose entry it deletes (a task that has ended is in
\* the table until then, and cancel() does nothing to it).
HeartbeatsAfter(hb, tasks, tasks2) ==
    LET kept == {IF h.entry /\ h.trip_id \in tasks \ tasks2
                 THEN cancel(h) ELSE h : h \in hb}
    IN  kept \cup {HeartbeatTask(t) : t \in tasks2 \ tasks}

\* Mutant: start_recording without the check for an open record.
start_recording_overwrites(trips, tasks, trip_id, user_id, t) ==
    [trips |-> Put(trips, trip_id, TripRecord(trip_id, user_id, t)),
     tasks |-> tasks \cup {trip_id},
     ret |-> TRUE, created |-> 1]

\* start_recording: the registry and heartbeat table after the call, its result,
\* and the number of heartbeat tasks it created
start_recording(trips, tasks, trip_id, user_id, t) ==
    IF trip_id \in DOMAIN trips
    THEN [trips |-> trips, tasks |-> tasks, ret |-> FALSE, created |-> 0]
    ELSE [trips |-> Put(trips, trip_id, TripRecord(trip_id, user_id, t)),
          tasks |-> tasks \cup {trip_id},
          ret |-> TRUE, created |-> 1]

\* _batch_save_gps_points: the calls it makes on the collaborator
_batch_save_gps_points(rec, io) ==
    IF io = "no_method" THEN <<>>
    ELSE <<DbCall("save_gps_points_batch", rec.trip_id, rec.gps_points, NoSummary, io)>>

\* _post_process_trip
_post_process_trip(rec, post) ==
    IF rec.gps_points # <<>> /\ post = "raises"
    THEN [rec EXCEPT !.status = "error"]
    ELSE [rec EXCEPT !.total_distance = IF rec.gps_points # <<>>
                                        THEN _calculate_distance(rec.gps_points)
                                        ELSE rec.total_distance,
                     !.status = "completed"]

\* trip_data, the dictionary _save_trip_to_database builds from the record
\* before it calls the collaborator
TripData(rec) ==
    LET pts == rec.gps_points
    IN  [user_id |-> rec.user_id, start_time |-> rec.start_time,
         end_time |-> rec.end_time,
         total_distance |-> IF rec.total_distance = NoTime THEN 0
                            ELSE rec.total_distance,
         start_latitude |-> IF pts = <<>> THEN 0 ELSE pts[1].latitude,
         end_latitude |-> IF pts = <<>> THEN 0 ELSE pts[Len(pts)].latitude,
         gps_points_count |-> Len(pts), status |-> rec.status]

\* _generate_trip_number: "TRIP-YYYYMMDD-HHMMSS", the start time truncated to
\* the second
_generate_trip_number(when) == when \div UsPerSecond

\* The trips table as the log of calls made on the collaborator determines
\* it: save_trip_record inserts one row per successful call; a row is named
\* by the position of its call, which stands for the id the table assigns.
TripRows(log) ==
    {i \in 1..Len(log) : log[i].call = "save_trip_record" /\ log[i].outcome = "ok"}
RowTripNumber(log, i) == _generate_trip_number(log[i].data.data.start_time)

\* table("trips").select("id").eq("trip_number", n).execute(): the rows with
\* that trip number; the code takes data[0] of them, in the table's order
LookupRows(log, n) == {i \in TripRows(log) : RowTripNumber(log, i) = n}

\* _save_trip_to_database: the calls it makes and the value it returns
_save_trip_to_database(rec, env) ==
    LET pts == rec.gps_points
        trip_data == TripData(rec)
    IN  [calls |-> <<DbCall("save_trip_record", rec.trip_id, <<>>,
                            [kind |-> "data", data |-> trip_data], env.save)>>
                   \o (IF env.save = "ok" /\ pts # <<>> /\ env.lookup = "found"
                       THEN <<DbCall("save_trip_points", rec.trip_id, pts, NoSummary, "returns")>>
                       ELSE <<>>),
         ret |-> IF env.save = "raises" THEN [kind |-> "empty"]
                 ELSE [kind |-> "data", data |-> trip_data]]

\* Mutant: stop_recording finalizes and persists an empty record for a trip id
\* that is not open.
stop_recording_unchecked(trips, tasks, trip_id, t, env) ==
    LET r0 == IF trip_id \in DOMAIN trips THEN trips[trip_id]
              ELSE TripRecord(trip_id, "unknown", t)
        r1 == [r0 EXCEPT !.end_time = t, !.status = "processing"]
        r2 == _post_process_trip(r1, env.post)
        sv == _save_trip_to_database(r2, env)
    IN  [trips |-> Del(trips, trip_id), tasks |-> tasks \ {trip_id},
         ret |-> sv.ret, calls |-> sv.calls,
         statuses |-> <<r0.status, r1.status, r2.status>>]

\* Mutant: a record whose post-processing failed stays in the registry.
stop_recording_keeps_failed(trips, tasks, trip_id, t, env) ==
    IF trip_id \notin DOMAIN trips
    THEN [trips |-> trips, tasks |-> tasks, ret |-> NoSummary, calls |-> <<>>,
          statuses |-> <<>>]
    ELSE LET r0 == trips[trip_id]
             r1 == [r0 EXCEPT !.end_time = t, !.status = "processing"]
             r2 == _post_process_trip(r1, env.post)
             sv == _save_trip_to_database(r2, env)
         IN  [trips |-> IF r2.status = "error" THEN [trips EXCEPT ![trip_id] = r2]
                        ELSE Del(trips, trip_id),
              tasks |-> tasks \ {trip_id},
              ret |-> sv.ret, calls |-> sv.calls,
              statuses |-> <<r0.status, r1.status, r2.status>>]

\* stop_recording: heartbeat cancelled, record finalized, persisted and removed
\* from the registry; statuses are the values the record's status went through
stop_recording(trips, tasks, trip_id, t, env) ==
    IF trip_id \notin DOMAIN trips
    THEN [trips |-> trips, tasks |-> tasks, ret |-> NoSummary, calls |-> <<>>,
          statuses |-> <<>>]
    ELSE LET r0 == trips[trip_id]
             r1 == [r0 EXCEPT !.end_time = t, !.status = "processing"]
             r2 == _post_process_trip(r1, env.post)
             sv == _save_trip_to_database(r2, env)
         IN  [trips |-> Del(trips, trip_id), tasks |-> tasks \ {trip_id},
              ret |-> sv.ret, calls |-> sv.calls,
              statuses |-> <<r0.status, r1.status, r2.status>>]

\* Mutant: get_active_trip_status stores its distance estimate in the record.
get_active_trip_status_caches(trips, tasks, trip_id, t) ==
    IF trip_id \notin DOMAIN trips
    THEN [trips |-> trips, tasks |-> tasks, ret |-> <<>>]
    ELSE LET rec == trips[trip_id]
         IN  [trips |-> [trips EXCEPT ![trip_id].total_distance =
                                          _calculate_distance(rec.gps_points)],
              tasks |-> tasks,
              ret |-> <<[trip_id |-> trip_id, user_id |-> rec.user_id,
                         start_time |-> rec.start_time, status |-> rec.status,
                         gps_points_count |-> Len(rec.gps_points),
                         duration_minutes |-> (t - rec.start_time) \div UsPerMinute,
                         estimated_distance |-> _calculate_distance(rec.gps_points)]>>]

\* get_active_trip_status: the registry and heartbeat table after the call and
\* the value returned (<<>> for None)
get_active_trip_status(trips, tasks, trip_id, t) ==
    IF trip_id \notin DOMAIN trips
    THEN [trips |-> trips, tasks |-> tasks, ret |-> <<>>]
    ELSE LET rec == trips[trip_id]
         IN  [trips |-> trips, tasks |-> tasks,
              ret |-> <<[trip_id |-> trip_id, user_id |-> rec.user_id,
                         start_time |-> rec.start_time, status |-> rec.status,
                         gps_points_count |-> Len(rec.gps_points),
                         duration_minutes |-> (t - rec.start_time) \div UsPerMinute,
                         estimated_distance |-> IF rec.gps_points # <<>>
                                                THEN _calculate_distance(rec.gps_points)
                                                ELSE 0]>>]

\* add_gps_point up to its await: the registry after the call, its result, the
\* branch taken, and whether it issued a batch flush
add_gps_point(trips, trip_id, gps) ==
    IF trip_id \notin DOMAIN trips
    THEN [trips |-> trips, ret |-> FALSE, why |-> "trip_not_active", flush |-> FALSE]
    ELSE IF ~_validate_gps_data(gps)
    THEN [trips |-> trips, ret |-> FALSE, why |-> "invalid_point", flush |-> FALSE]
    ELSE IF _should_add_point(trips[trip_id], gps)
    THEN LET pts == Append(trips[trip_id].gps_points, gps)
         IN  [trips |-> [trips EXCEPT ![trip_id].gps_points = pts],
              ret |-> TRUE, why |-> "added",
              flush |-> Len(pts) % RecorderConfig.batch_size = 0]
    ELSE [trips |-> trips, ret |-> FALSE, why |-> "filtered", flush |-> FALSE]

-----------------------------------------------------------------------------
(* TripStateMachineManager and TripRecordingSystem *)

\* Mutant: get_machine constructs a machine on every call.
get_machine_always_new(machines, ninst, u) ==
    [machines |-> Put(machines, u, TripStateMachine(ninst)), next_inst |-> ninst + 1]

get_machine(machines, ninst, u) ==
    IF u \in DOMAIN machines
    THEN [machines |-> machines, next_inst |-> ninst]
    ELSE [machines |-> Put(machines, u, TripStateMachine(ninst)),
          next_inst |-> ninst + 1]

_ensure_user_setup(machines, callbacks, ninst, u) ==
    IF u \in callbacks
    THEN [machines |-> machines, callbacks |-> callbacks, next_inst |-> ninst]
    ELSE LET g == get_machine(machines, ninst, u)
         IN  [machines |-> [g.machines EXCEPT ![u].hooks = "orch"],
              callbacks |-> callbacks \cup {u},
              next_inst |-> g.next_inst]

\* The orchestrator's hooks: asyncio.create_task(start_trip_recording(trip_id,
\* user_id)) and asyncio.create_task(stop_trip_recording(trip_id)).
RECURSIVE CreateTasks(_, _, _)
CreateTasks(tasks, calls, u) ==
    IF calls = <<>> THEN tasks
    ELSE CreateTasks(Append(tasks, [kind |-> Head(calls).hook,
                                    trip_id |-> Head(calls).trip_id,
                                    user_id |-> u]),
                     Tail(calls), u)

\* observer: the trips started by the hook calls of one step
LogStarts(log, m, before, u) ==
    IF m.context.current_state = "active" /\ before # "active"
    THEN Append(log, [trip_id |-> m.context.trip_id, user_id |-> u, inst |-> m.inst])
    ELSE log

RawSamples ==
    [speed_mps : {0, MaxSpeedMps},
     timestamp : {k * TsStep : k \in 0..MaxTsSteps},
     latitude : {0, LatFar},
     longitude : {0},
     accuracy : {5},
     accel : {1}]

\* For sample streams: also one sample the normalizer rejects (accuracy above
\* its 100 m) and one it accepts and the recorder rejects (above its 50 m).
StreamSamples ==
    RawSamples
    \cup {[speed_mps |-> MaxSpeedMps, timestamp |-> TsStep, latitude |-> LatFar,
            longitude |-> 0, accuracy |-> 2 * AccPoor, accel |-> 1],
           [speed_mps |-> MaxSpeedMps, timestamp |-> TsStep, latitude |-> LatFar,
            longitude |-> 0, accuracy |-> AccPoor, accel |-> 1]}

Served == last_op.n

\* observer record of one step: the call, its user, its result (ok: the boolean
\* result; trip_id: the trip id returned; note: the branch taken) and the hook
\* calls the state machine made in it
Op(name, u, n, ok, trip_id, note, calls) ==
    [op |-> name, user |-> u, n |-> n, ok |-> ok, trip_id |-> trip_id,
     note |-> note, calls |-> calls]

\* observer: what a manual call found
Before(m) ==
    IF m.context.current_state = "active" THEN "was_active"
    ELSE IF m.context.speed_above_threshold_start # NoTime THEN "was_idle_timer_running"
    ELSE "was_idle"

\* process_sensor_input(user_id, raw): io is what the persistence collaborator's
\* batch save does if this call issues one (one of FlushOutcomes; "suspend"
\* leaves the coroutine suspended in the await).
ProcessSensorInput(u, raw, io) ==
    LET setup == _ensure_user_setup(user_machines, user_callbacks, next_inst, u)
        sp == sensor_process_sensor_data(speed_windows, motion_analyzers, u, raw)
    IN  /\ setup.next_inst <= MaxInst
        /\ next_inst' = setup.next_inst
        /\ user_callbacks' = setup.callbacks
        /\ IF ~sp.valid
           THEN /\ user_machines' = setup.machines
                /\ speed_windows' = sp.windows
                /\ motion_analyzers' = sp.analyzers
                /\ last_op' = Op("process_sensor_input", u, Served + 1, FALSE, NoTrip,
                                 "invalid", <<>>)
                /\ io = "returns"
                /\ UNCHANGED <<active_trips, loop_tasks, suspended, trip_log, db>>
           ELSE LET m == setup.machines[u]
                    r == process_sensor_data(m, config, sp.speed_kmh, raw.timestamp, now)
                    gps == [latitude |-> raw.latitude, longitude |-> raw.longitude,
                            timestamp |-> raw.timestamp, accuracy |-> raw.accuracy,
                            speed_kmh |-> sp.speed_kmh]
                    forward == r.current_state = "active" /\ r.trip_id # NoTrip
                    a == IF forward
                         THEN add_gps_point(active_trips, r.trip_id, gps)
                         ELSE [trips |-> active_trips, ret |-> FALSE,
                               why |-> "not_forwarded", flush |-> FALSE]
                    waits == a.flush /\ io = "suspend"
                IN  /\ ~a.flush => io = "returns"
                    /\ waits => Len(suspended) < MaxSuspended
                    /\ db' = IF a.flush
                             THEN db \o _batch_save_gps_points(a.trips[r.trip_id], io)
                             ELSE db
                    /\ speed_windows' = sp.windows
                    /\ motion_analyzers' = sp.analyzers
                    /\ user_machines' = [setup.machines EXCEPT ![u] = r.m]
                    /\ loop_tasks' = CreateTasks(loop_tasks, r.calls, u)
                    /\ trip_log' = LogStarts(trip_log, r.m, m.context.current_state, u)
                    /\ active_trips' = a.trips
                    /\ suspended' = IF waits
                                    THEN Append(suspended, [user_id |-> u, trip_id |-> r.trip_id])
                                    ELSE suspended
                    /\ last_op' = Op("process_sensor_input", u, Served + 1, TRUE,
                                     r.trip_id,
                                     IF waits THEN "suspended" ELSE a.why,
                                     r.calls)
        /\ UNCHANGED <<now, config, collection_tasks, heartbeats, summary, sm_vars, api_vars, fn_vars, co_vars>>

\* The persistence collaborator's batch save returns; add_gps_point and
\* process_sensor_input run to their end without touching the session again.
FlushReturns(i) ==
    /\ i \in 1..Len(suspended)
    /\ suspended' = SubSeq(suspended, 1, i - 1) \o SubSeq(suspended, i + 1, Len(suspended))
    /\ last_op' = Op("flush_returns", suspended[i].user_id, Served, TRUE,
                    suspended[i].trip_id, "added", <<>>)
    /\ UNCHANGED <<now, config, user_machines, user_callbacks, speed_windows,
                   motion_analyzers, active_trips, collection_tasks, heartbeats, loop_tasks,
                   next_inst, trip_log, db, summary, sm_vars, api_vars, fn_vars, co_vars>>

\* manual_trip_control(user_id, "start")
ManualStart(u) ==
    LET setup == _ensure_user_setup(user_machines, user_callbacks, next_inst, u)
        m == setup.machines[u]
        r == manual_start_trip(m, u, now)
    IN  /\ setup.next_inst <= MaxInst
        /\ next_inst' = setup.next_inst
        /\ user_callbacks' = setup.callbacks
        /\ user_machines' = [setup.machines EXCEPT ![u] = r.m]
        /\ loop_tasks' = CreateTasks(loop_tasks, r.calls, u)
        /\ trip_log' = LogStarts(trip_log, r.m, m.context.current_state, u)
        /\ last_op' = Op("manual_start", u, Served + 1, TRUE, r.ret, Before(m), r.calls)
        /\ UNCHANGED <<now, config, speed_windows, motion_analyzers, active_trips,
                       collection_tasks, heartbeats, suspended, db, summary, sm_vars, api_vars, fn_vars, co_vars>>

\* manual_trip_control(user_id, "stop")
ManualStop(u) ==
    LET setup == _ensure_user_setup(user_machines, user_callbacks, next_inst, u)
        m == setup.machines[u]
        r == manual_stop_trip(m, now)
    IN  /\ setup.next_inst <= MaxInst
        /\ next_inst' = setup.next_inst
        /\ user_callbacks' = setup.callbacks
        /\ user_machines' = [setup.machines EXCEPT ![u] = r.m]
        /\ loop_tasks' = CreateTasks(loop_tasks, r.calls, u)
        /\ last_op' = Op("manual_stop", u, Served + 1, r.ret, NoTrip, Before(m), r.calls)
        /\ UNCHANGED <<now, config, speed_windows, motion_analyzers, active_trips,
                       collection_tasks, heartbeats, suspended, trip_log, db, summary, sm_vars, api_vars, fn_vars, co_vars>>

\* get_user_status(user_id): get_machine without _ensure_user_setup, then reads
GetUserStatus(u) ==
    LET g == get_machine(user_machines, next_inst, u)
    IN  /\ g.next_inst <= MaxInst
        /\ user_machines' = g.machines
        /\ next_inst' = g.next_inst
        /\ last_op' = Op("get_user_status", u, Served + 1, TRUE, NoTrip, "", <<>>)
        /\ UNCHANGED <<now, config, user_callbacks, speed_windows, motion_analyzers,
                       active_trips, collection_tasks, heartbeats, loop_tasks, suspended,
                       trip_log, db, summary, sm_vars, api_vars, fn_vars, co_vars>>

\* Mutant: cleanup_user_data leaves the user registered with the orchestrator.
CleanupUserData_keeps_registration(u) ==
    /\ user_machines' = Del(user_machines, u)
    /\ speed_windows' = Del(speed_windows, u)
    /\ motion_analyzers' = Del(motion_analyzers, u)
    /\ last_op' = Op("cleanup_user_data", u, Served + 1, TRUE, NoTrip, "", <<>>)
    /\ UNCHANGED <<now, config, active_trips, collection_tasks, heartbeats, loop_tasks,
                   suspended, next_inst, trip_log, db, summary, user_callbacks,
                   sm_vars, api_vars, fn_vars, co_vars>>

\* cleanup_user_data(user_id)
CleanupUserData(u) ==
    /\ user_machines' = Del(user_machines, u)
    /\ speed_windows' = Del(speed_windows, u)
    /\ motion_analyzers' = Del(motion_analyzers, u)
    /\ user_callbacks' = user_callbacks \ {u}
    /\ last_op' = Op("cleanup_user_data", u, Served + 1, TRUE, NoTrip, "", <<>>)
    /\ UNCHANGED <<now, config, active_trips, collection_tasks, heartbeats, loop_tasks,
                   suspended, next_inst, trip_log, db, summary, sm_vars, api_vars, fn_vars, co_vars>>

\* The event loop runs the oldest task the hooks created: start_trip_recording
\* or stop_trip_recording.
RunTask ==
    /\ loop_tasks # <<>>
    /\ LET task == Head(loop_tasks)
       IN  IF task.kind = "start"
           THEN LET r == start_recording(active_trips, collection_tasks,
                                         task.trip_id, task.user_id, now)
                IN  /\ active_trips' = r.trips
                    /\ collection_tasks' = r.tasks
                    /\ heartbeats' = HeartbeatsAfter(heartbeats, collection_tasks, r.tasks)
                    /\ last_op' = Op("start", task.user_id, Served, r.ret,
                                     task.trip_id, "", <<>>)
                    /\ UNCHANGED <<db, summary>>
           ELSE \E env \in StopEnvs :
                    LET r == stop_recording(active_trips, collection_tasks,
                                            task.trip_id, now, env)
                    IN  /\ task.trip_id \in DOMAIN active_trips
                               => env \in StopEnvsFor(active_trips[task.trip_id])
                        /\ task.trip_id \notin DOMAIN active_trips
                               => env = [post |-> "ok", save |-> "ok", lookup |-> "found"]
                        /\ active_trips' = r.trips
                        /\ collection_tasks' = r.tasks
                        /\ heartbeats' = HeartbeatsAfter(heartbeats, collection_tasks, r.tasks)
                        /\ db' = db \o r.calls
                        /\ summary' = r.ret
                        /\ last_op' = Op("stop", task.user_id, Served,
                                         r.ret.kind # "none", task.trip_id, "", <<>>)
    /\ loop_tasks' = Tail(loop_tasks)
    /\ UNCHANGED <<now, config, user_machines, user_callbacks, speed_windows,
                   motion_analyzers, suspended, next_inst, trip_log, sm_vars, api_vars, fn_vars, co_vars>>

\* Time passes.
Tick ==
    /\ now < MaxTicks * TickUs
    /\ now' = now + TickUs
    /\ last_op' = Op("tick", "", Served, TRUE, NoTrip, "", <<>>)
    /\ UNCHANGED <<config, user_machines, user_callbacks, speed_windows,
                   motion_analyzers, active_trips, collection_tasks, heartbeats, loop_tasks,
                   suspended, next_inst, trip_log, db, summary, sm_vars, api_vars, fn_vars, co_vars>>

\* A request served by the orchestrator
Request ==
    \/ \E u \in Users, raw \in RawSamples, io \in FlushOutcomes :
           ProcessSensorInput(u, raw, io)
    \/ \E u \in Users : ManualStart(u)
    \/ \E u \in Users : ManualStop(u)
    \/ \E u \in Users : GetUserStatus(u)
    \/ \E u \in Users : CleanupUserData(u)

Next ==
    \/ Served < MaxOps /\ Request
    \/ \E i \in 1..MaxSuspended : FlushReturns(i)
    \/ RunTask
    \/ Tick

\* Sample streams only: the orchestrator serving process_sensor_input requests
\* and the event loop running the tasks they create.
StreamNext ==
    \/ /\ Served < MaxStreamOps
       /\ \E u \in Users, raw \in StreamSamples, io \in FlushOutcomes :
              ProcessSensorInput(u, raw, io)
    \/ \E i \in 1..MaxSuspended : FlushReturns(i)
    \/ RunTask

Spec == Init /\ [][Next]_vars

-----------------------------------------------------------------------------
(* Endpoints of routers/trip_recording.py: /sensor-data, /trip/start and   *)
(* /trip/stop, on the same TripStateMachineManager.  A handler runs to its *)
(* end; the tasks it added to its request's BackgroundTasks run after the  *)
(* response, one request after the other.  A task added to the             *)
(* BackgroundTasks of a request whose tasks have all run is never run.     *)

BgTask(kind, trip_id, u, gps) ==
    [kind |-> kind, trip_id |-> trip_id, user_id |-> u, gps |-> gps]

\* the hooks installed by the endpoints: background_tasks.add_task on the
\* BackgroundTasks object the lambdas captured
RECURSIVE AddHookTasks(_, _, _, _)
AddHookTasks(b, owner, calls, u) ==
    IF calls = <<>> THEN b
    ELSE AddHookTasks([b EXCEPT ![owner].tasks =
                          Append(@, BgTask(Head(calls).hook, Head(calls).trip_id, u, <<>>))],
                      owner, Tail(calls), u)

\* POST /sensor-data
ApiSensorData(u, raw) ==
    LET k == Len(bg) + 1
        sp == sensor_process_sensor_data(speed_windows, motion_analyzers, u, raw)
        fresh == Append(bg, [tasks |-> <<>>, done |-> FALSE])
    IN  /\ IF ~sp.valid
           THEN /\ bg' = fresh
                /\ last_op' = Op("api_sensor_data", u, Served + 1, FALSE, NoTrip,
                                 "invalid", <<>>)
                /\ UNCHANGED <<user_machines, next_inst, hook_owner, speed_windows,
                               motion_analyzers, trip_log>>
           ELSE LET g == get_machine(user_machines, next_inst, u)
                    install == g.machines[u].hooks = "none"
                    m == IF install THEN [g.machines[u] EXCEPT !.hooks = "router"]
                         ELSE g.machines[u]
                    owner == IF install THEN k ELSE hook_owner[u]
                    r == process_sensor_data(m, config, sp.speed_kmh, raw.timestamp, now)
                    gps == [latitude |-> raw.latitude, longitude |-> raw.longitude,
                            timestamp |-> raw.timestamp, accuracy |-> raw.accuracy,
                            speed_kmh |-> sp.speed_kmh]
                    hooked == AddHookTasks(fresh, owner, r.calls, u)
                IN  /\ g.next_inst <= MaxInst
                    /\ next_inst' = g.next_inst
                    /\ speed_windows' = sp.windows
                    /\ motion_analyzers' = sp.analyzers
                    /\ user_machines' = [g.machines EXCEPT ![u] = r.m]
                    /\ hook_owner' = Put(hook_owner, u, owner)
                    /\ bg' = IF r.current_state = "active" /\ r.trip_id # NoTrip
                             THEN [hooked EXCEPT ![k].tasks =
                                      Append(@, BgTask("add", r.trip_id, u, <<gps>>))]
                             ELSE hooked
                    /\ trip_log' = LogStarts(trip_log, r.m, m.context.current_state, u)
                    /\ last_op' = Op("api_sensor_data", u, Served + 1, TRUE, r.trip_id,
                                     "", r.calls)
        /\ UNCHANGED <<now, config, user_callbacks, active_trips, collection_tasks, heartbeats,
                       loop_tasks, suspended, db, summary, sm_vars, fn_vars, co_vars>>

\* POST /trip/start
ApiTripStart(u) ==
    LET k == Len(bg) + 1
        g == get_machine(user_machines, next_inst, u)
        m == [g.machines[u] EXCEPT !.hooks = "router"]
        r == manual_start_trip(m, u, now)
    IN  /\ g.next_inst <= MaxInst
        /\ next_inst' = g.next_inst
        /\ user_machines' = [g.machines EXCEPT ![u] = r.m]
        /\ hook_owner' = Put(hook_owner, u, k)
        /\ bg' = AddHookTasks(Append(bg, [tasks |-> <<>>, done |-> FALSE]), k, r.calls, u)
        /\ trip_log' = LogStarts(trip_log, r.m, m.context.current_state, u)
        /\ last_op' = Op("api_trip_start", u, Served + 1, TRUE, r.ret, Before(m), r.calls)
        /\ UNCHANGED <<now, config, user_callbacks, speed_windows, motion_analyzers,
                       active_trips, collection_tasks, heartbeats, loop_tasks, suspended, db,
                       summary, sm_vars, fn_vars, co_vars>>

\* POST /trip/stop: no BackgroundTasks of its own
ApiTripStop(u) ==
    LET g == get_machine(user_machines, next_inst, u)
        m == g.machines[u]
        r == manual_stop_trip(m, now)
        served == Append(bg, [tasks |-> <<>>, done |-> TRUE])
    IN  /\ g.next_inst <= MaxInst
        /\ next_inst' = g.next_inst
        /\ user_machines' = [g.machines EXCEPT ![u] = r.m]
        /\ bg' = IF r.calls = <<>> THEN served
                 ELSE AddHookTasks(served, hook_owner[u], r.calls, u)
        /\ last_op' = Op("api_trip_stop", u, Served + 1, r.ret, NoTrip, Before(m), r.calls)
        /\ UNCHANGED <<now, config, user_callbacks, speed_windows, motion_analyzers,
                       active_trips, collection_tasks, heartbeats, loop_tasks, suspended, db,
                       summary, trip_log, hook_owner, sm_vars, fn_vars, co_vars>>

\* PUT /config: the fields of the request that are not None (NoTime) are
\* assigned to the config object of the user's machine.
update_trip_config(cfg, input) ==
    [speed_threshold_kmh |->
         IF input.speed_threshold_kmh # NoTime
         THEN input.speed_threshold_kmh * KmhScale ELSE cfg.speed_threshold_kmh,
     duration_threshold_seconds |->
         IF input.duration_threshold_seconds # NoTime
         THEN input.duration_threshold_seconds ELSE cfg.duration_threshold_seconds,
     stop_duration_threshold_seconds |->
         IF input.stop_duration_threshold_seconds # NoTime
         THEN input.stop_duration_threshold_seconds
         ELSE cfg.stop_duration_threshold_seconds,
     gps_collection_interval_seconds |->
         IF input.gps_collection_interval_seconds # NoTime
         THEN input.gps_collection_interval_seconds
         ELSE cfg.gps_collection_interval_seconds]

\* Requests that supply a speed threshold, a duration threshold, both or neither
ConfigInputs ==
    [speed_threshold_kmh : {NoTime, SpeedLow},
     duration_threshold_seconds : {NoTime, 2 * TsStep},
     stop_duration_threshold_seconds : {NoTime},
     gps_collection_interval_seconds : {NoTime}]

\* The config object of a user's machine: get_machine constructs every machine
\* with the manager's _config object, so all of them refer to that one object.
MachineConfig(u) == config

ApiUpdateConfig(u, input) ==
    LET g == get_machine(user_machines, next_inst, u)
    IN  /\ g.next_inst <= MaxInst
        /\ next_inst' = g.next_inst
        /\ user_machines' = g.machines
        /\ config' = update_trip_config(config, input)
        /\ last_op' = Op("api_update_config", u, Served + 1, TRUE, NoTrip, "", <<input>>)
        /\ UNCHANGED <<now, user_callbacks, speed_windows, motion_analyzers,
                       active_trips, collection_tasks, heartbeats, loop_tasks, suspended, db,
                       summary, trip_log, bg, hook_owner, sm_vars, fn_vars, co_vars>>

\* After the response: the oldest request whose background tasks have not all
\* run runs its next task, or finishes.
ApiBackground ==
    /\ \E k \in 1..Len(bg) : ~bg[k].done
    /\ LET k == CHOOSE i \in 1..Len(bg) :
                    ~bg[i].done /\ \A j \in 1..(i - 1) : bg[j].done
       IN  IF bg[k].tasks = <<>>
           THEN /\ bg' = [bg EXCEPT ![k].done = TRUE]
                /\ last_op' = Op("background_done", "", Served, TRUE, NoTrip, "", <<>>)
                /\ UNCHANGED <<active_trips, collection_tasks, heartbeats, db, summary>>
           ELSE LET task == Head(bg[k].tasks)
                IN  /\ bg' = [bg EXCEPT ![k].tasks = Tail(@)]
                    /\ \/ /\ task.kind = "start"
                          /\ LET r == start_recording(active_trips, collection_tasks,
                                                      task.trip_id, task.user_id, now)
                             IN  /\ active_trips' = r.trips
                                 /\ collection_tasks' = r.tasks
                                 /\ heartbeats' = HeartbeatsAfter(heartbeats, collection_tasks, r.tasks)
                                 /\ last_op' = Op("start", task.user_id, Served, r.ret,
                                                  task.trip_id, "", <<>>)
                          /\ UNCHANGED <<db, summary>>
                       \/ /\ task.kind = "stop"
                          /\ \E env \in StopEnvs :
                                LET r == stop_recording(active_trips, collection_tasks,
                                                        task.trip_id, now, env)
                                IN  /\ task.trip_id \in DOMAIN active_trips
                                       => env \in StopEnvsFor(active_trips[task.trip_id])
                                    /\ task.trip_id \notin DOMAIN active_trips
                                       => env = [post |-> "ok", save |-> "ok",
                                                 lookup |-> "found"]
                                    /\ active_trips' = r.trips
                                    /\ collection_tasks' = r.tasks
                                    /\ heartbeats' = HeartbeatsAfter(heartbeats, collection_tasks, r.tasks)
                                    /\ db' = db \o r.calls
                                    /\ summary' = r.ret
                                    /\ last_op' = Op("stop", task.user_id, Served,
                                                     r.ret.kind # "none", task.trip_id,
                                                     "", <<>>)
                       \/ /\ task.kind = "add"
                          /\ \E io \in FlushOutcomes \ {"suspend"} :
                                LET a == add_gps_point(active_trips, task.trip_id,
                                                       task.gps[1])
                                IN  /\ ~a.flush => io = "returns"
                                    /\ active_trips' = a.trips
                                    /\ db' = IF a.flush
                                             THEN db \o _batch_save_gps_points(
                                                            a.trips[task.trip_id], io)
                                             ELSE db
                                    /\ last_op' = Op("add", task.user_id, Served, a.ret,
                                                     task.trip_id, a.why, <<>>)
                          /\ UNCHANGED <<collection_tasks, heartbeats, summary>>
    /\ UNCHANGED <<now, config, user_machines, user_callbacks, speed_windows,
                   motion_analyzers, loop_tasks, suspended, next_inst, trip_log,
                   hook_owner, sm_vars, fn_vars, co_vars>>

ApiNext ==
    \/ /\ Served < MaxApiOps
       /\ \/ \E u \in Users, raw \in RawSamples : ApiSensorData(u, raw)
          \/ \E u \in Users : ApiTripStart(u)
          \/ \E u \in Users : ApiTripStop(u)
          \/ \E u \in Users, input \in ConfigInputs : ApiUpdateConfig(u, input)
    \/ ApiBackground

\* The server runs the background tasks of every response it has sent.
SpecApi == Init /\ [][ApiNext]_vars /\ WF_vars(ApiBackground)

-----------------------------------------------------------------------------
(* Recorder level: one RouteRecorder called directly, each call running to *)
(* its end before the next one starts.                                     *)

RecTripIds == {_generate_trip_id("u1", 0), _generate_trip_id("auto", 0)}

\* Points the recorder accepts, one of poor accuracy and one off the globe.
RecPoints ==
    [latitude : {0, LatNear, LatFar},
     longitude : {0},
     timestamp : {k * TsStep : k \in 0..MaxTsSteps},
     accuracy : {5},
     speed_kmh : {0}]
    \cup {[latitude |-> LatFar, longitude |-> 0, timestamp |-> 0,
            accuracy |-> AccPoor, speed_kmh |-> 0],
           [latitude |-> 91 * 100000, longitude |-> 0, timestamp |-> 0,
            accuracy |-> 5, speed_kmh |-> 0]}

\* In the observer record of a recorder call, calls holds the call's argument
\* (the point offered) or the statuses the record went through.
RecStartRecording(trip_id, user_id) ==
    LET r == start_recording(active_trips, collection_tasks, trip_id, user_id, now)
    IN  /\ active_trips' = r.trips
        /\ collection_tasks' = r.tasks
        /\ heartbeats' = IF r.created = 1 THEN create_task(heartbeats, trip_id)
                         ELSE heartbeats
        /\ last_op' = Op("start_recording", user_id, Served + 1, r.ret, trip_id,
                         IF r.created = 0 THEN "no_task_created" ELSE "task_created",
                         <<>>)
        /\ UNCHANGED <<now, config, user_machines, user_callbacks, speed_windows,
                       motion_analyzers, loop_tasks, suspended, next_inst, trip_log,
                       db, summary, sm_vars, api_vars, fn_vars, co_vars>>

RecAddGpsPoint(trip_id, gps, io) ==
    LET a == add_gps_point(active_trips, trip_id, gps)
        waits == a.flush /\ io = "suspend"
    IN  /\ ~a.flush => io = "returns"
        /\ waits => Len(suspended) < MaxSuspended
        /\ suspended' = IF waits
                        THEN Append(suspended, [user_id |-> "", trip_id |-> trip_id])
                        ELSE suspended
        /\ active_trips' = a.trips
        /\ db' = IF a.flush THEN db \o _batch_save_gps_points(a.trips[trip_id], io)
                 ELSE db
        /\ last_op' = [Op("add_gps_point", "", Served + 1, a.ret, trip_id, a.why, <<>>)
                           EXCEPT !.calls = <<gps>>]
        /\ UNCHANGED <<now, config, user_machines, user_callbacks, speed_windows,
                       motion_analyzers, collection_tasks, heartbeats, loop_tasks,
                       next_inst, trip_log, summary, sm_vars, api_vars, fn_vars, co_vars>>

RecStopRecording(trip_id, env) ==
    LET r == stop_recording(active_trips, collection_tasks, trip_id, now, env)
    IN  /\ trip_id \in DOMAIN active_trips => env \in StopEnvsFor(active_trips[trip_id])
        /\ trip_id \notin DOMAIN active_trips
               => env = [post |-> "ok", save |-> "ok", lookup |-> "found"]
        /\ active_trips' = r.trips
        /\ collection_tasks' = r.tasks
        /\ heartbeats' = HeartbeatsAfter(heartbeats, collection_tasks, r.tasks)
        /\ db' = db \o r.calls
        /\ summary' = r.ret
        /\ last_op' = Op("stop_recording", "", Served + 1, r.ret.kind # "none", trip_id,
                         IF r.statuses = <<>> THEN "" ELSE r.statuses[Len(r.statuses)],
                         r.statuses)
        /\ UNCHANGED <<now, config, user_machines, user_callbacks, speed_windows,
                       motion_analyzers, loop_tasks, suspended, next_inst, trip_log,
                       sm_vars, api_vars, fn_vars, co_vars>>

RecGetActiveTripStatus(trip_id) ==
    LET r == get_active_trip_status(active_trips, collection_tasks, trip_id, now)
    IN  /\ active_trips' = r.trips
        /\ collection_tasks' = r.tasks
        /\ heartbeats' = HeartbeatsAfter(heartbeats, collection_tasks, r.tasks)
        /\ last_op' = Op("get_active_trip_status", "", Served + 1, r.ret # <<>>,
                         trip_id, "", r.ret)
        /\ UNCHANGED <<now, config, user_machines, user_callbacks, speed_windows,
                       motion_analyzers, loop_tasks, suspended, next_inst, trip_log,
                       db, summary, sm_vars, api_vars, fn_vars, co_vars>>

RecNext ==
    \/ /\ Served < MaxRecOps
       /\ \/ \E t \in RecTripIds, u \in Users : RecStartRecording(t, u)
          \/ \E t \in RecTripIds, gps \in RecPoints, io \in FlushOutcomes \ {"suspend"} :
                 RecAddGpsPoint(t, gps, io)
          \/ \E t \in RecTripIds, env \in StopEnvs : RecStopRecording(t, env)
    \/ Tick

SpecRec == Init /\ [][RecNext]_vars

\* The same recorder recording one trip whose points include one about 2 km
\* away from the others.
DistTripId == _generate_trip_id("u1", 0)
DistPoints ==
    [latitude : {0, LatFar, LatJump},
     longitude : {0},
     timestamp : {0},
     accuracy : {5},
     speed_kmh : {0}]

DistNext ==
    /\ Served < MaxDistOps
    /\ \/ RecStartRecording(DistTripId, "u1")
       \/ \E gps \in DistPoints, io \in FlushOutcomes \ {"suspend"} :
              RecAddGpsPoint(DistTripId, gps, io)
       \/ \E env \in StopEnvs : RecStopRecording(DistTripId, env)
       \/ RecGetActiveTripStatus(DistTripId)

SpecDist == Init /\ [][DistNext]_vars

\* The same recorder with a collaborator whose batch save suspends the caller:
\* add_gps_point waits in its await while other calls are made on the recorder.
AsyncPoints == {p \in RecPoints : p.timestamp = 0 /\ _validate_gps_data(p)}

AsyncNext ==
    \/ /\ Served < MaxAsyncOps
       /\ \/ \E t \in RecTripIds, u \in Users : RecStartRecording(t, u)
          \/ \E t \in RecTripIds, gps \in AsyncPoints, io \in FlushOutcomes :
                 RecAddGpsPoint(t, gps, io)
          \/ \E t \in RecTripIds, env \in StopEnvs : RecStopRecording(t, env)
    \/ \E i \in 1..MaxSuspended : FlushReturns(i)

SpecRecAsync == Init /\ [][AsyncNext]_vars

\* The same recorder with a collaborator whose save_trip_record suspends the
\* caller, and with the event loop running the heartbeat tasks.

\* stop_recording up to its await of save_trip_record: the heartbeat is
\* cancelled and taken out of the table, the record is finalized in place and
\* stays in the registry, trip_data is built and handed to the collaborator.
RecStopSuspends(trip_id, post) ==
    /\ trip_id \in DOMAIN active_trips
    /\ Len(stopping) < MaxStopping
    /\ LET r0 == active_trips[trip_id]
           r1 == [r0 EXCEPT !.end_time = now, !.status = "processing"]
           r2 == _post_process_trip(r1, post)
       IN  /\ r0.gps_points = <<>> => post = "ok"
           /\ collection_tasks' = collection_tasks \ {trip_id}
           /\ heartbeats' = HeartbeatsAfter(heartbeats, collection_tasks,
                                            collection_tasks \ {trip_id})
           /\ active_trips' = [active_trips EXCEPT ![trip_id] = r2]
           /\ db' = Append(db, DbCall("save_trip_record", trip_id, <<>>,
                                      [kind |-> "data", data |-> TripData(r2)],
                                      "suspend"))
           /\ stopping' = Append(stopping, [trip_id |-> trip_id,
                                            trip_data |-> TripData(r2),
                                            detached |-> FALSE, points |-> <<>>])
           /\ last_op' = Op("stop_suspends", "", Served + 1, TRUE, trip_id, r2.status,
                            <<r0.status, r1.status, r2.status>>)
    /\ UNCHANGED <<now, config, user_machines, user_callbacks, speed_windows,
                   motion_analyzers, loop_tasks, suspended, next_inst, trip_log,
                   summary, sm_vars, api_vars, fn_vars>>

\* A suspended stop_recording holds its record object in the local trip_record.
\* While the registry holds that object the coroutine sees the points added to
\* it; once `del self._active_trips[trip_id]` of another stop_recording has
\* taken the object out of the registry it is detached: nothing reaches it any
\* more, and a record registered later under the same trip id is another
\* object.
Detach(waiting, trip_id, pts) ==
    [j \in 1..Len(waiting) |->
        IF waiting[j].trip_id = trip_id /\ ~waiting[j].detached
        THEN [waiting[j] EXCEPT !.detached = TRUE, !.points = pts]
        ELSE waiting[j]]

\* save_trip_record returns (save) to the i-th suspended stop_recording, which
\* runs to its end: the points its record holds now are saved under the id the
\* lookup yields, then `del self._active_trips[trip_id]` deletes whatever record
\* the registry holds under the trip id and trip_data is returned; with no
\* such key the del raises KeyError and None is returned.
RecStopResumes(i, env) ==
    /\ i \in 1..Len(stopping)
    /\ LET c == stopping[i]
           open == c.trip_id \in DOMAIN active_trips
           pts == IF c.detached THEN c.points
                  ELSE active_trips[c.trip_id].gps_points
           ret == IF env.save = "raises" \/ ~open THEN [kind |-> "empty"]
                  ELSE [kind |-> "data", data |-> c.trip_data]
           rest == SubSeq(stopping, 1, i - 1)
                       \o SubSeq(stopping, i + 1, Len(stopping))
       IN  /\ pts = <<>> => env.lookup = "found"
           /\ stopping' = IF open
                           THEN Detach(rest, c.trip_id,
                                       active_trips[c.trip_id].gps_points)
                           ELSE rest
           /\ db' = db \o (IF env.save = "ok" /\ pts # <<>> /\ env.lookup = "found"
                           THEN <<DbCall("save_trip_points", c.trip_id, pts, NoSummary,
                                         "returns")>>
                           ELSE <<>>)
           /\ active_trips' = Del(active_trips, c.trip_id)
           /\ summary' = ret
           /\ last_op' = Op("stop_resumes", "", Served, ret.kind = "data", c.trip_id,
                            env.save, <<>>)
    /\ UNCHANGED <<now, config, user_machines, user_callbacks, speed_windows,
                   motion_analyzers, collection_tasks, heartbeats, loop_tasks,
                   suspended, next_inst, trip_log, sm_vars, api_vars, fn_vars>>

\* The event loop runs heartbeat task h: a cancelled task receives
\* CancelledError and ends; a live one ends when its trip is no longer in the
\* registry, otherwise it logs the number of points and sleeps again.
HeartbeatRun(h) ==
    /\ h \in heartbeats
    /\ IF h.state = "cancelled" \/ h.trip_id \notin DOMAIN active_trips
       THEN heartbeats' = heartbeats \ {h}
       ELSE /\ h.beats < MaxBeats
            /\ heartbeats' = (heartbeats \ {h}) \cup {[h EXCEPT !.beats = h.beats + 1]}
    /\ last_op' = Op("heartbeat", "", Served, TRUE, h.trip_id, h.state, <<>>)
    /\ UNCHANGED <<now, config, user_machines, user_callbacks, speed_windows,
                   motion_analyzers, active_trips, collection_tasks, loop_tasks,
                   suspended, next_inst, trip_log, db, summary, sm_vars, api_vars,
                   fn_vars, co_vars>>

CoNext ==
    \/ /\ Served < MaxCoOps
       /\ \/ RecStartRecording(DistTripId, "u1")
          \/ \E gps \in AsyncPoints, io \in FlushOutcomes :
                 RecAddGpsPoint(DistTripId, gps, io)
          \/ \E post \in {"ok", "raises"} : RecStopSuspends(DistTripId, post)
          \/ \E env \in StopEnvs : stopping = <<>> /\ RecStopRecording(DistTripId, env)
    \/ \E i \in 1..MaxStopping, env \in {e \in StopEnvs : e.post = "ok"} :
           RecStopResumes(i, env)
    \/ \E i \in 1..MaxSuspended : FlushReturns(i)
    \/ \E h \in heartbeats : HeartbeatRun(h)

SpecRecCo == Init /\ [][CoNext]_vars

SpecStream == Init /\ [][StreamNext]_vars

\* The recorder recording several trips one after the other, each with one
\* point, while the clock advances.
NumPoint == [latitude |-> 0, longitude |-> 0, timestamp |-> 0, accuracy |-> 5,
             speed_kmh |-> 0]

NumNext ==
    \/ /\ Served < MaxNumOps
       /\ \/ \E t \in RecTripIds : RecStartRecording(t, "u1")
          \/ \E t \in RecTripIds : RecAddGpsPoint(t, NumPoint, "returns")
          \/ \E t \in RecTripIds, env \in {e \in StopEnvs : e.post = "ok"} :
                 RecStopRecording(t, env)
    \/ Tick

SpecNum == Init /\ [][NumNext]_vars

\* Sample streams long enough to fill a speed window: samples of both speeds
\* at one place, and one sample the normalizer rejects.
WinSamples ==
    {raw \in StreamSamples :
        \/ raw.latitude = 0
        \/ raw.accuracy = 2 * AccPoor}

WinNext ==
    \/ /\ Served < MaxWinOps
       /\ \E u \in Users, raw \in WinSamples : ProcessSensorInput(u, raw, "returns")
    \/ RunTask

SpecWin == Init /\ [][WinNext]_vars

-----------------------------------------------------------------------------
(* The stateless helpers applied to inputs: extract_features to a list of  *)
(* points assembled one by one, process_activity to a label.               *)

\* Each helper is applied on its own: a list of points is assembled only for
\* extract_features.
\* The points offered: with every key, without a speed key, with a speed of
\* None, without an accuracy key.  The outcome does not look at positions, so
\* the kinds are offered in this order.
PointKinds ==
    <<[speed_kmh |-> Field(TRUE, 5), accuracy |-> Field(TRUE, 5)],
      [speed_kmh |-> Field(FALSE, NoTime), accuracy |-> Field(TRUE, 5)],
      [speed_kmh |-> Field(TRUE, NoTime), accuracy |-> Field(TRUE, 5)],
      [speed_kmh |-> Field(TRUE, 5), accuracy |-> Field(FALSE, NoTime)]>>

SensorInputs == {<<>>, <<[accel |-> TRUE, activity_confidence |-> 5]>>,
                 <<[accel |-> FALSE, activity_confidence |-> 5]>>}

Labels ==
    {Label(w, c) : w \in {"in_vehicle", "on_bicycle", "on_foot", "running", "still",
                          "tilting", "walking", "automotive", "cycling", "stationary"},
                   c \in LabelCases}

Confidences == {NoTime, 0, 5, 9, 15}

FnAddPoint(k) ==
    /\ Len(fn_in) < MaxPoints
    /\ IF fn_in = <<>> THEN TRUE ELSE fn_in[Len(fn_in)].kind <= k
    /\ fn_in' = Append(fn_in, [kind |-> k, timestamp |-> Len(fn_in),
                               speed_kmh |-> PointKinds[k].speed_kmh,
                               accuracy |-> PointKinds[k].accuracy])
    /\ fn_out' = [op |-> "add_point"]
    /\ UNCHANGED <<sys_vars, sm_vars, co_vars>>

FnExtractFeatures(sensor_data) ==
    /\ fn_out' = [op |-> "extract_features", sensor_data |-> sensor_data,
                  ret |-> extract_features(fn_in, sensor_data)]
    /\ UNCHANGED <<fn_in, sys_vars, sm_vars, co_vars>>

FnProcessActivity(label, confidence) ==
    /\ fn_in = <<>>
    /\ fn_out' = [op |-> "process_activity", label |-> label,
                  confidence |-> confidence,
                  ret |-> process_activity(label, confidence)]
    /\ UNCHANGED <<fn_in, sys_vars, sm_vars, co_vars>>

\* Feature vectors: mean speed, mean acceleration and stop frequency (stops
\* per minute), in 1/ValScale; the other fields are not read by the classifier.
FeatureVectors ==
    [avg_speed_kmh : {0, 4 * ValScale, 8 * ValScale, 12 * ValScale, 20 * ValScale,
                      50 * ValScale, 100 * ValScale, 250 * ValScale},
     avg_acceleration : {0, 1 * ValScale, 25, 6 * ValScale},
     stop_frequency : {0, 1, 5, 1 * ValScale, 5 * ValScale}]

FnClassify(features) ==
    /\ fn_in = <<>>
    /\ fn_out' = [op |-> "classify_transport_mode", features |-> features,
                  ret |-> classify_transport_mode(features)]
    /\ UNCHANGED <<fn_in, sys_vars, sm_vars, co_vars>>

FnNext ==
    \/ \E features \in FeatureVectors : FnClassify(features)
    \/ \E k \in 1..Len(PointKinds) : FnAddPoint(k)
    \/ \E sensor_data \in SensorInputs : FnExtractFeatures(sensor_data)
    \/ \E label \in Labels \cup {NoLabel}, confidence \in Confidences :
           FnProcessActivity(label, confidence)

SpecFn == Init /\ [][FnNext]_vars

-----------------------------------------------------------------------------
(* Claims about the state machine, checked under SpecSM *)

SmActive == sm.context.current_state = "active"
SmIdle == sm.context.current_state = "idle"

\* C1: while every sample fed since the machine was last Idle with no timer is at
\* or above the threshold (timestamps non-decreasing), the machine is Active
\* exactly from the first sample whose timestamp is duration_threshold_seconds or
\* more after the first such sample, and it has started exactly one trip by then
\* and none before.
C1_StartsOnceAtThreshold ==
    (sm_run.ok /\ sm_run.first # NoTime) =>
        /\ SmActive <=> (sm_ts - sm_run.first >= config.duration_threshold_seconds)
        /\ sm_run.ups = (IF SmActive THEN 1 ELSE 0)
        /\ SmIdle => sm.context.speed_above_threshold_start = sm_run.first

C1_Witness ==
    /\ sm_run.ok /\ sm_run.ups = 1 /\ SmActive
    /\ sm_ts - sm_run.first > config.duration_threshold_seconds

\* C2: in Idle a sample below the threshold unsets the speed-above timer and
\* starts no trip; a sample starts a trip only if every sample since the timer
\* was started was at or above the threshold and the timer has run for
\* duration_threshold_seconds or more; and the script of duration-1 high samples,
\* one low sample and duration-1 high samples, one second apart, starts no trip.
C2_DipResetsTimer ==
    /\ [][(sm_op'.op = "sample" /\ SmIdle) =>
            /\ (sm_op'.speed < config.speed_threshold_kmh) =>
                   /\ sm'.context.speed_above_threshold_start = NoTime
                   /\ sm'.context.current_state = "idle"
            /\ (sm'.context.current_state = "active") =>
                   /\ sm_op'.speed >= config.speed_threshold_kmh
                   /\ sm_run.ok /\ sm_run.first # NoTime
                   /\ sm_run.first = sm.context.speed_above_threshold_start
                   /\ sm_op'.ts - sm_run.first >= config.duration_threshold_seconds
         ]_vars
    /\ []((sm_scen # Off /\ sm_scen >= 1) => (SmIdle /\ sm.context.trip_id = NoTrip))

C2_Witness == sm_scen = ScriptLen /\ SmIdle

\* C3: in Active a sample stops the trip exactly when it is below the threshold,
\* the speed-below timer is already running and has run for
\* stop_duration_threshold_seconds or more; a sample at or above the threshold
\* unsets the timer, and a sample below it with no timer running starts the
\* timer at its own timestamp.
C3_StopAfterSustainedLowSpeed ==
    [][(sm_op'.op = "sample" /\ SmActive) =>
         LET below == sm_op'.speed < config.speed_threshold_kmh
             timer == sm.context.speed_below_threshold_start
         IN  /\ (sm'.context.current_state = "idle") <=>
                    (/\ below
                     /\ timer # NoTime
                     /\ sm_op'.ts - timer >= config.stop_duration_threshold_seconds)
             /\ (~below) => sm'.context.speed_below_threshold_start = NoTime
             /\ (below /\ timer = NoTime) =>
                    sm'.context.speed_below_threshold_start = sm_op'.ts
      ]_vars

C3_Witness ==
    /\ sm_op.op = "sample" /\ sm_op.state_changed /\ SmIdle
    /\ sm.context.last_sensor_data >= 2 * stop_duration_threshold_seconds

\* C23: when the hook of a machine raises, the call that made the transition
\* still returns its result and the transition is complete: after a failed
\* on_trip_start the machine is Active with the new trip id (the one the hook
\* was called with), after a failed on_trip_stop it is Idle with no trip id and
\* both timers unset.
C23_HookFailureContained ==
    [][(sm.hooks = "raising" /\ sm_op'.calls # <<>>) =>
         LET c == sm_op'.calls[1]
             after == sm'.context
         IN  /\ Len(sm_op'.calls) = 1
             /\ IF c.hook = "start"
                THEN /\ after.current_state = "active"
                     /\ c.trip_id # NoTrip
                     /\ after.trip_id = c.trip_id
                     /\ sm_op'.ret_id = c.trip_id
                ELSE /\ after.current_state = "idle"
                     /\ after.trip_id = NoTrip
                     /\ after.speed_above_threshold_start = NoTime
                     /\ after.speed_below_threshold_start = NoTime
                     /\ c.trip_id = sm.context.trip_id
                     /\ sm_op'.op = "manual_stop" => sm_op'.ret_ok
      ]_vars

C23_Witness ==
    /\ sm.hooks = "raising"
    /\ sm_op.op = "sample"
    /\ sm_op.state_changed
    /\ SmIdle
    /\ sm_op.calls # <<>>

\* C30: a step that takes the machine from Active to Idle, by a sample or by
\* manual_stop_trip, calls on_trip_stop exactly once, with the id of the trip
\* that was active and while the context still holds that id; no other step
\* calls on_trip_stop, in particular none taken while no trip is active; and a
\* trip id enters the context only in a step that calls on_trip_start with it,
\* so that the start call of an id precedes its stop call.
StopCalls(calls) == {i \in 1..Len(calls) : calls[i].hook = "stop"}
StartCalls(calls) == {i \in 1..Len(calls) : calls[i].hook = "start"}

C30_StopHookOncePerTrip ==
    [][LET before == sm.context
           after == sm'.context
           calls == sm_op'.calls
       IN  /\ (before.current_state = "active" /\ after.current_state = "idle") =>
                 /\ before.trip_id # NoTrip
                 /\ after.trip_id = NoTrip
                 /\ calls = <<[hook |-> "stop", trip_id |-> before.trip_id,
                               context_trip_id |-> before.trip_id]>>
           /\ StopCalls(calls) # {} =>
                 before.current_state = "active" /\ after.current_state = "idle"
           /\ (after.trip_id # NoTrip /\ after.trip_id # before.trip_id) =>
                 /\ before.trip_id = NoTrip
                 /\ calls = <<[hook |-> "start", trip_id |-> after.trip_id,
                               context_trip_id |-> after.trip_id]>>
      ]_vars

C30_Witness ==
    /\ sm_op.op = "manual_stop"
    /\ sm_op.ret_ok
    /\ SmIdle
    /\ StopCalls(sm_op.calls) # {}
    /\ sm.context.last_sensor_data # NoTime

-----------------------------------------------------------------------------
(* Claims about the sessions, checked under Spec and SpecStream *)

Machines == DOMAIN user_machines
Ctx(u) == user_machines[u].context

\* C4: for every user's machine, the context holds a trip id exactly when its
\* state is Active, and a trip id is never replaced by another one in one step
\* (the user holds at most one at a time).
C4_TripIdIffActive ==
    /\ [](\A u \in Machines : (Ctx(u).trip_id # NoTrip) <=> (Ctx(u).current_state = "active"))
    /\ [][\A u \in Machines :
            (u \in DOMAIN user_machines' /\ user_machines'[u].context.trip_id # Ctx(u).trip_id)
                => (Ctx(u).trip_id = NoTrip \/ user_machines'[u].context.trip_id = NoTrip)
         ]_vars

C4_Witness ==
    \E u \in Machines :
        /\ Ctx(u).current_state = "idle" /\ Ctx(u).trip_id = NoTrip
        /\ \E i \in 1..Len(trip_log) :
               trip_log[i].user_id = u /\ trip_log[i].inst = user_machines[u].inst
        /\ \E v \in Machines \ {u} : Ctx(v).current_state = "active"

\* C5: manual_start_trip leaves the machine Active and returns the active trip
\* id; from Idle it sets a trip id and calls on_trip_start once with it (one
\* start task is created), whatever the debounce timer; in Active it returns
\* the existing id, leaves the context as it was and calls no hook.
C5_ManualStartIdempotent ==
    [][(last_op'.op = "manual_start") =>
         LET u == last_op'.user
             after == user_machines'[u].context
             was_active == u \in Machines /\ Ctx(u).current_state = "active"
         IN  /\ after.current_state = "active"
             /\ after.trip_id # NoTrip
             /\ last_op'.trip_id = after.trip_id
             /\ IF was_active
                THEN /\ after = Ctx(u)
                     /\ last_op'.calls = <<>>
                     /\ loop_tasks' = loop_tasks
                ELSE /\ last_op'.calls = <<[hook |-> "start", trip_id |-> after.trip_id,
                                           context_trip_id |-> after.trip_id]>>
                     /\ loop_tasks' = Append(loop_tasks, [kind |-> "start",
                                                          trip_id |-> after.trip_id,
                                                          user_id |-> u])
                     /\ after.speed_above_threshold_start = NoTime
      ]_vars

C5_Witness ==
    /\ last_op.op = "manual_start"
    /\ last_op.note = "was_idle_timer_running"
    /\ Len(last_op.calls) = 1

\* C6: manual_stop_trip with no active trip returns False, calls no hook and
\* leaves the whole context (state, trip id, state-entry time, both timers) as
\* it was.
C6_ManualStopNoTrip ==
    [][(/\ last_op'.op = "manual_stop"
        /\ ~(last_op'.user \in Machines /\ Ctx(last_op'.user).current_state = "active")) =>
         LET u == last_op'.user
         IN  /\ last_op'.ok = FALSE
             /\ last_op'.calls = <<>>
             /\ loop_tasks' = loop_tasks
             /\ user_machines'[u].context =
                    (IF u \in Machines THEN Ctx(u) ELSE TripContext)
      ]_vars

C6_Witness ==
    /\ last_op.op = "manual_stop"
    /\ ~last_op.ok
    /\ Ctx(last_op.user).speed_above_threshold_start # NoTime

\* C7: no two trips ever receive the same trip id.
C7_TripIdsUnique ==
    \A i, j \in 1..Len(trip_log) :
        i # j => trip_log[i].trip_id # trip_log[j].trip_id

\* C8 as stated: once a user has a state machine, every later step finds that
\* same instance registered for the user.
C8_SessionKeptForever ==
    [][\A u \in Machines :
          /\ u \in DOMAIN user_machines'
          /\ user_machines'[u].inst = user_machines[u].inst
      ]_vars

\* C8 as amended: a machine is created Idle on first contact; until
\* cleanup_user_data for that user, every later step (get_machine and
\* _ensure_user_setup included) finds the same instance, and get_machine alone
\* leaves its context as it was; distinct users never share an instance, and
\* every user registered with the orchestrator has a machine.
C8_OneSessionUntilCleanup ==
    /\ [][\A u \in Users :
            /\ (u \in Machines /\ ~(last_op'.op = "cleanup_user_data" /\ last_op'.user = u)) =>
                   /\ u \in DOMAIN user_machines'
                   /\ user_machines'[u].inst = user_machines[u].inst
                   /\ (last_op'.op = "get_user_status") =>
                          user_machines'[u].context = Ctx(u)
            /\ (u \notin Machines /\ u \in DOMAIN user_machines') =>
                   /\ last_op'.user = u
                   /\ user_machines'[u].inst = next_inst
                   /\ (last_op'.op = "get_user_status") =>
                          user_machines'[u].context = TripContext
         ]_vars
    /\ [](/\ \A u, v \in Machines : u # v => user_machines[u].inst # user_machines[v].inst
          /\ user_callbacks \subseteq Machines)

C8_Witness ==
    /\ last_op.op = "get_user_status"
    /\ last_op.user \in Machines
    /\ Ctx(last_op.user).current_state = "active"
    /\ user_machines[last_op.user].inst = 0
    /\ next_inst > 1

\* The session of user u: its machine's context, its smoothing windows and the
\* buffer of its open trip record.
OpenBuffer(u) ==
    IF u \in Machines /\ Ctx(u).trip_id \in DOMAIN active_trips
    THEN <<"open", active_trips[Ctx(u).trip_id].gps_points>>
    ELSE <<"closed">>

Session(u) ==
    <<IF u \in Machines THEN <<Ctx(u)>> ELSE <<>>,
      IF u \in DOMAIN speed_windows THEN speed_windows[u] ELSE <<>>,
      IF u \in DOMAIN motion_analyzers THEN motion_analyzers[u] ELSE <<>>,
      OpenBuffer(u)>>

StateBefore(u) == IF u \in Machines THEN Ctx(u).current_state ELSE "idle"

\* C26: cleanup_user_data(u) removes u's machine, speed window, motion window
\* and registration, and leaves every other user's machine, windows and
\* registration, the recorder and what was persisted as they were; the next
\* contact by u constructs a new machine, Idle before the call acts on it, with
\* the orchestrator's hooks installed by a sample or a manual control; and
\* every change of state of a machine calls its hook and creates its task.
C26_CleanupRemovesOnlyThatUser ==
    [][/\ (last_op'.op = "cleanup_user_data") =>
            LET u == last_op'.user
            IN  /\ u \notin DOMAIN user_machines'
                /\ u \notin DOMAIN speed_windows'
                /\ u \notin DOMAIN motion_analyzers'
                /\ u \notin user_callbacks'
                /\ \A v \in Users \ {u} :
                       /\ (v \in Machines) <=> (v \in DOMAIN user_machines')
                       /\ v \in Machines => user_machines'[v] = user_machines[v]
                       /\ Session(v)' = Session(v)
                       /\ (v \in user_callbacks) <=> (v \in user_callbacks')
                /\ active_trips' = active_trips
                /\ collection_tasks' = collection_tasks
                /\ db' = db
                /\ summary' = summary
       /\ \A u \in Users :
            (u \notin Machines /\ u \in DOMAIN user_machines') =>
                /\ last_op'.user = u
                /\ user_machines'[u].inst = next_inst
                /\ next_inst' = next_inst + 1
                /\ (last_op'.op # "manual_start") =>
                       /\ user_machines'[u].context.current_state = "idle"
                       /\ user_machines'[u].context.trip_id = NoTrip
                /\ (last_op'.op \in {"process_sensor_input", "manual_start", "manual_stop"}) =>
                       /\ user_machines'[u].hooks = "orch"
                       /\ u \in user_callbacks'
       /\ \A u \in Users :
            (/\ u \in DOMAIN user_machines'
             /\ user_machines'[u].context.current_state # StateBefore(u)) =>
                /\ Len(last_op'.calls) = 1
                /\ Len(loop_tasks') = Len(loop_tasks) + 1
                /\ loop_tasks'[Len(loop_tasks')].trip_id = last_op'.calls[1].trip_id
      ]_vars

C26_Witness ==
    /\ last_op.op = "manual_start"
    /\ last_op.n = MaxOps
    /\ Machines = {last_op.user}
    /\ user_machines[last_op.user].inst = 1
    /\ user_machines[last_op.user].hooks = "orch"
    /\ Len(last_op.calls) = 1

\* C9: a sample, a manual start or a manual stop of one user leaves every
\* other user's session unchanged.
C9_OtherSessionsUnchanged ==
    [][(last_op'.op \in {"process_sensor_input", "manual_start", "manual_stop"}) =>
         \A b \in Users \ {last_op'.user} : Session(b)' = Session(b)
      ]_vars

\* C10: while an operation of a user is suspended in a flush, no other
\* operation changes that user's timers, windows or trip buffer.
C10_SerializedPerUser ==
    [][\A u \in Users :
          (\E i \in 1..Len(suspended) : suspended[i].user_id = u)
              => Session(u)' = Session(u)
      ]_vars

-----------------------------------------------------------------------------
(* Claims about the recorder, checked under SpecRec *)

Open == DOMAIN active_trips
Buffer(t) == active_trips[t].gps_points
MinDistanceCm == RecorderConfig.min_distance_filter * 100
\* the collaborator calls made by the step
NewCalls == SubSeq(db', Len(db) + 1, Len(db'))

\* C13: start_recording on a trip id that has an open record returns False,
\* leaves the registry (the record's user, start time, buffer, status) and the
\* heartbeat table as they were and creates no task.
C13_StartOnOpenTripRejected ==
    [][(last_op'.op = "start_recording" /\ last_op'.trip_id \in Open) =>
         /\ last_op'.ok = FALSE
         /\ last_op'.note = "no_task_created"
         /\ active_trips' = active_trips
         /\ collection_tasks' = collection_tasks
      ]_vars

C13_Witness ==
    /\ last_op.op = "start_recording"
    /\ ~last_op.ok
    /\ last_op.trip_id \in Open
    /\ Buffer(last_op.trip_id) # <<>>
    /\ active_trips[last_op.trip_id].user_id # last_op.user

\* C14: add_gps_point or stop_recording on a trip id that is not open returns
\* False / None, changes no record, buffer or heartbeat task and makes no call
\* on the persistence collaborator.
C14_UnknownTripNoEffect ==
    [][(/\ last_op'.op \in {"add_gps_point", "stop_recording"}
        /\ last_op'.trip_id \notin Open) =>
         /\ last_op'.ok = FALSE
         /\ (last_op'.op = "stop_recording") => (summary' = NoSummary)
         /\ active_trips' = active_trips
         /\ collection_tasks' = collection_tasks
         /\ db' = db
      ]_vars

C14_Witness ==
    /\ last_op.op = "stop_recording"
    /\ ~last_op.ok
    /\ summary = NoSummary
    /\ \E t \in Open : Buffer(t) # <<>>

\* C16: consecutive points of a buffer are at least min_distance_filter apart;
\* a valid point offered to an empty buffer is retained, a valid point closer
\* than min_distance_filter to the last retained one is refused (False) and
\* the buffer stays as it was, any other valid point is appended.
C16_DistanceFilter ==
    /\ [](\A t \in Open : \A i \in 1..(Len(Buffer(t)) - 1) :
            _calculate_distance_between_points(Buffer(t)[i], Buffer(t)[i + 1])
                >= MinDistanceCm)
    /\ [][(/\ last_op'.op = "add_gps_point"
           /\ last_op'.trip_id \in Open
           /\ _validate_gps_data(last_op'.calls[1])) =>
            LET t == last_op'.trip_id
                point == last_op'.calls[1]
                pts == Buffer(t)
                after == active_trips'[t].gps_points
            IN  IF pts = <<>>
                THEN last_op'.ok /\ after = <<point>>
                ELSE IF _calculate_distance_between_points(pts[Len(pts)], point)
                            < MinDistanceCm
                THEN ~last_op'.ok /\ after = pts
                ELSE last_op'.ok /\ after = Append(pts, point)
         ]_vars

C16_Witness ==
    /\ last_op.op = "add_gps_point"
    /\ last_op.note = "filtered"
    /\ last_op.n = MaxRecOps
    /\ Len(Buffer(last_op.trip_id)) = 1
    /\ last_op.calls[1].latitude # Buffer(last_op.trip_id)[1].latitude

\* C17: the timestamps of the points of a buffer are non-decreasing in buffer
\* order.
C17_BufferTimeOrdered ==
    \A t \in Open : \A i \in 1..(Len(Buffer(t)) - 1) :
        Buffer(t)[i].timestamp <= Buffer(t)[i + 1].timestamp

\* C18: an add_gps_point that brings the number of retained points to a
\* multiple of batch_size makes exactly one batch-save call, whose points are
\* the batch_size points retained since the previous flush.
C18_FlushSendsNewPoints ==
    [][(/\ last_op'.op = "add_gps_point"
        /\ last_op'.ok
        /\ Len(active_trips'[last_op'.trip_id].gps_points)
               % RecorderConfig.batch_size = 0) =>
         LET after == active_trips'[last_op'.trip_id].gps_points
         IN  /\ Len(NewCalls) = 1
             /\ NewCalls[1].call = "save_gps_points_batch"
             /\ NewCalls[1].points =
                    SubSeq(after, Len(after) - RecorderConfig.batch_size + 1, Len(after))
      ]_vars

\* C19: when stop_recording finalizes an open trip and save_trip_record
\* succeeded, every point of the buffer that no batch save carried has been
\* handed to the collaborator, and the value returned is the saved trip data.
C19_StopPersistsEveryPoint ==
    [][(/\ last_op'.op = "stop_recording"
        /\ last_op'.trip_id \in Open
        /\ NewCalls[1].outcome = "ok") =>
         LET t == last_op'.trip_id
             handed == {c \in {(db')[k] : k \in 1..Len(db')} :
                           c.trip_id = t /\ c.call # "save_trip_record"}
         IN  /\ \A i \in 1..Len(Buffer(t)) :
                    \E c \in handed : \E j \in 1..Len(c.points) : c.points[j] = Buffer(t)[i]
             /\ summary' = NewCalls[1].data
      ]_vars

C21_StopWaitsForFlush ==
    [][(last_op'.op = "stop_recording" /\ last_op'.trip_id \in Open) =>
         \A i \in 1..Len(suspended) : suspended[i].trip_id # last_op'.trip_id
      ]_vars

\* C22: when the batch save of a flush fails, add_gps_point still returns and
\* the buffer keeps the point; when save_trip_record fails (returns failure or
\* raises) during stop_recording, the trip's record and buffer are still in the
\* registry afterwards.
C22_FailedPersistenceKeepsRecord ==
    [][/\ (/\ last_op'.op = "add_gps_point"
          /\ last_op'.trip_id \in Open
          /\ last_op'.note = "added"
          /\ Len(active_trips'[last_op'.trip_id].gps_points)
                 % RecorderConfig.batch_size = 0
          /\ (NewCalls = <<>> \/ NewCalls[1].outcome = "raises")) =>
            /\ last_op'.ok
            /\ active_trips'[last_op'.trip_id].gps_points
                   = Append(Buffer(last_op'.trip_id), last_op'.calls[1])
       /\ (/\ last_op'.op = "stop_recording"
          /\ last_op'.trip_id \in Open
          /\ NewCalls[1].outcome \in {"fails", "raises"}) =>
            /\ last_op'.trip_id \in DOMAIN active_trips'
            /\ active_trips'[last_op'.trip_id].gps_points = Buffer(last_op'.trip_id)
      ]_vars

\* the sum of all the consecutive point-to-point distances of a buffer
RECURSIVE PlainSum(_)
PlainSum(pts) ==
    IF Len(pts) < 2 THEN 0
    ELSE _calculate_distance_between_points(pts[1], pts[2]) + PlainSum(Tail(pts))

NotJump(p) == p.latitude # LatJump

\* C24: the total distance computed at stop is the plain sum of the
\* consecutive distances of the trip's points that are less than 1 km apart;
\* one additional point about 2 km away, retained anywhere in the buffer,
\* leaves that total as it is, and the point is still counted in the buffer.
C24_JumpLeavesDistanceUnchanged ==
    [][(/\ last_op'.op = "stop_recording"
        /\ last_op'.trip_id \in Open
        /\ last_op'.note = "completed"
        /\ summary'.kind = "data"
        /\ Len(Buffer(last_op'.trip_id))
               <= Len(SelectSeq(Buffer(last_op'.trip_id), NotJump)) + 1) =>
         /\ summary'.data.total_distance
                = PlainSum(SelectSeq(Buffer(last_op'.trip_id), NotJump))
         /\ summary'.data.gps_points_count = Len(Buffer(last_op'.trip_id))
      ]_vars

\* C25: get_active_trip_status leaves the registry (every record's buffer,
\* status and start time) and the heartbeat table as they were; it returns
\* None for a trip id that is not open and the status of an open one.
C25_StatusReadOnly ==
    [][(last_op'.op = "get_active_trip_status") =>
         /\ active_trips' = active_trips
         /\ collection_tasks' = collection_tasks
         /\ db' = db
         /\ IF last_op'.trip_id \in Open
            THEN /\ last_op'.ok
                 /\ last_op'.calls[1].gps_points_count = Len(Buffer(last_op'.trip_id))
            ELSE ~last_op'.ok /\ last_op'.calls = <<>>
      ]_vars

C25_Witness ==
    /\ last_op.op = "get_active_trip_status"
    /\ last_op.ok
    /\ last_op.calls[1].gps_points_count >= 2
    /\ last_op.calls[1].estimated_distance > 0

-----------------------------------------------------------------------------
(* Claims about the sample pipeline, checked under SpecStream *)

\* C11: a valid sample after whose state-machine step the user is Active is
\* handed to add_gps_point and is not refused there as 'trip not active'; a
\* sample after whose step the user is Idle is not forwarded.
C11_ActiveSamplesReachOpenRecord ==
    [][(last_op'.op = "process_sensor_input" /\ last_op'.note # "invalid") =>
         LET after == user_machines'[last_op'.user].context
         IN  IF after.current_state = "active"
             THEN last_op'.note \in {"added", "suspended", "filtered", "invalid_point"}
             ELSE last_op'.note = "not_forwarded"
      ]_vars

\* C15: a sample the normalizer rejects changes no speed window, motion
\* window, state-machine context, trip record, task or collaborator call (a
\* first contact only creates the user's Idle machine); a point the recorder's
\* validation rejects leaves the registry and the collaborator untouched.
C15_InvalidInputMutatesNothing ==
    [][(last_op'.op = "process_sensor_input") =>
         LET u == last_op'.user
         IN  /\ (last_op'.note = "invalid") =>
                    /\ speed_windows' = speed_windows
                    /\ motion_analyzers' = motion_analyzers
                    /\ user_machines'[u].context =
                           (IF u \in Machines THEN Ctx(u) ELSE TripContext)
                    /\ \A v \in Machines \ {u} : user_machines'[v] = user_machines[v]
                    /\ active_trips' = active_trips
                    /\ collection_tasks' = collection_tasks
                    /\ loop_tasks' = loop_tasks
                    /\ db' = db
             /\ (last_op'.note = "invalid_point") =>
                    /\ active_trips' = active_trips
                    /\ collection_tasks' = collection_tasks
                    /\ db' = db
      ]_vars

C15_Witness ==
    /\ last_op.op = "process_sensor_input"
    /\ last_op.note = "invalid"
    /\ last_op.user \in DOMAIN speed_windows
    /\ Ctx(last_op.user).current_state = "active"
    /\ Ctx(last_op.user).trip_id \in Open
    /\ Buffer(Ctx(last_op.user).trip_id) # <<>>

-----------------------------------------------------------------------------
(* Claims about the endpoints, checked under SpecApi *)

ApiTripIds == {_generate_trip_id(p, 0) : p \in Users \cup {"auto"}}

\* C12: whenever a user's machine is Active with trip id t, start_recording
\* for t is eventually executed and t is an open record of the recorder.
C12_StartEventuallyRecorded ==
    \A u \in Users : \A t \in ApiTripIds :
        (u \in Machines /\ Ctx(u).current_state = "active" /\ Ctx(u).trip_id = t)
            ~> (t \in Open)

\* C27: a threshold update for one user sets exactly the fields the request
\* supplies, leaves the omitted fields as they were, and leaves the thresholds
\* of every other user's machine as they were.
C27_ConfigUpdateIsPerUser ==
    [][(last_op'.op = "api_update_config") =>
         LET u == last_op'.user
             input == last_op'.calls[1]
             before == MachineConfig(u)
             after == MachineConfig(u)'
         IN  /\ after.speed_threshold_kmh =
                    (IF input.speed_threshold_kmh = NoTime
                     THEN before.speed_threshold_kmh
                     ELSE input.speed_threshold_kmh * KmhScale)
             /\ after.duration_threshold_seconds =
                    (IF input.duration_threshold_seconds = NoTime
                     THEN before.duration_threshold_seconds
                     ELSE input.duration_threshold_seconds)
             /\ after.stop_duration_threshold_seconds
                    = before.stop_duration_threshold_seconds
             /\ after.gps_collection_interval_seconds
                    = before.gps_collection_interval_seconds
             /\ \A v \in Machines \ {u} : MachineConfig(v)' = MachineConfig(v)
      ]_vars

-----------------------------------------------------------------------------
(* Claims about the stateless helpers, checked under SpecFn *)

\* C28: extract_features returns None for fewer than min_points_for_features
\* points and a populated feature vector for that many points or more,
\* whatever optional keys the points carry.
C28_FeaturesFromTenPoints ==
    (fn_out.op = "extract_features") =>
        IF Len(fn_in) < min_points_for_features
        THEN fn_out.ret = NoFeatures
        ELSE /\ fn_out.ret.kind = "features"
             /\ RequiredFields \subseteq fn_out.ret.keys

\* C29: a known label maps to the same activity in every spelling of its
\* letters' case, and that activity is not unknown; no label maps to unknown,
\* with confidence 0.5 when no confidence is given either.
C29_LabelCaseInsensitive ==
    (fn_out.op = "process_activity") =>
        IF fn_out.label # NoLabel
        THEN /\ fn_out.ret.activity # "unknown"
             /\ \A c \in LabelCases :
                    process_activity(Label(fn_out.label.letters, c),
                                     fn_out.confidence).activity
                        = fn_out.ret.activity
        ELSE /\ fn_out.ret.activity = "unknown"
             /\ fn_out.confidence = NoTime => fn_out.ret.confidence = 5

-----------------------------------------------------------------------------
(* Further claims about one state machine, checked under SpecSM *)

ToIdle == SmActive /\ sm'.context.current_state = "idle"
ToActive == SmIdle /\ sm'.context.current_state = "active"

\* C31 (as stated): after every transition to Idle the state-entry time and
\* both debounce timers are unset.
C31_IdleEntryUnsetsTimes ==
    [][ToIdle =>
         /\ sm'.context.state_start_time = NoTime
         /\ sm'.context.speed_above_threshold_start = NoTime
         /\ sm'.context.speed_below_threshold_start = NoTime
      ]_vars

\* C31 (amended): after every transition to Idle, by a sample or by
\* manual_stop_trip, both debounce timers are unset and the state-entry time
\* is the time of the transition.
C31_IdleEntryStampsTime ==
    [][ToIdle =>
         /\ sm'.context.state_start_time = now
         /\ sm'.context.state_start_time # NoTime
         /\ sm'.context.speed_above_threshold_start = NoTime
         /\ sm'.context.speed_below_threshold_start = NoTime
      ]_vars

C31_Witness ==
    /\ SmIdle
    /\ sm_op.op = "sample"
    /\ sm_op.state_changed
    /\ sm.context.state_start_time # NoTime
    /\ sm.context.speed_below_threshold_start = NoTime

-----------------------------------------------------------------------------
(* Claims about the recorder's coroutines and tasks, checked under SpecRecCo *)

LiveHeartbeats(t) == {h \in heartbeats : h.trip_id = t /\ h.state = "live"}
StopStep == last_op'.op \in {"stop_suspends", "stop_recording"} /\ last_op'.ok

\* C32: every record that is being recorded has exactly one live heartbeat
\* task, and the task table has an entry for it; a stop_recording of an open
\* trip cancels the table's task, leaving the trip without table entry and
\* without live heartbeat; a cancelled heartbeat ends the next time it runs; a
\* heartbeat that runs changes neither the registry nor what was persisted;
\* and a stop leaves the coroutines waiting in a batch flush, and the flush
\* calls already made, as they were.
C32_OneHeartbeatPerOpenTrip ==
    /\ [](\A t \in RecTripIds :
            (t \in Open /\ active_trips[t].status = "recording")
                => /\ t \in collection_tasks
                   /\ Cardinality(LiveHeartbeats(t)) = 1)
    /\ [][/\ StopStep =>
               /\ last_op'.trip_id \notin collection_tasks'
               /\ \A h \in heartbeats' :
                      h.trip_id = last_op'.trip_id => h.state = "cancelled"
               /\ \A h \in heartbeats :
                      (h.entry /\ h.trip_id = last_op'.trip_id)
                          => cancel(h) \in heartbeats'
               /\ suspended' = suspended
               /\ SubSeq(db', 1, Len(db)) = db
          /\ last_op'.op = "heartbeat" =>
               /\ active_trips' = active_trips
               /\ collection_tasks' = collection_tasks
               /\ db' = db
               /\ last_op'.note = "cancelled" =>
                      \E h \in heartbeats :
                          /\ h.state = "cancelled"
                          /\ h.trip_id = last_op'.trip_id
                          /\ heartbeats' = heartbeats \ {h}
         ]_vars

-----------------------------------------------------------------------------
(* Claims about the speed windows, checked under SpecWin *)

WindowOf(windows, u) == IF u \in DOMAIN windows THEN windows[u] ELSE <<>>

\* C33: a user's speed window never holds more than speed_smoothing_window
\* values; a sample that passes validation appends its speed in km/h to its
\* user's window, the oldest value leaving a full window, the other values
\* and the other users' windows staying as they were; and the state machine
\* compares the mean of the window after the append with its threshold (seen
\* from the debounce timer it starts or the transition it makes).
C33_WindowMeanDrivesMachine ==
    /\ [](\A u \in DOMAIN speed_windows :
            Len(speed_windows[u]) <= ProcessorConfig.speed_smoothing_window)
    /\ [][(last_op'.op = "process_sensor_input" /\ last_op'.note # "invalid") =>
            LET u == last_op'.user
                old == WindowOf(speed_windows, u)
                w == speed_windows'[u]
                kept == Len(w) - 1
                before == IF u \in Machines THEN Ctx(u) ELSE TripContext
                after == user_machines'[u].context
                above == SeqSum(w) >= config.speed_threshold_kmh * Len(w)
            IN  /\ Len(w) = IF Len(old) < ProcessorConfig.speed_smoothing_window
                            THEN Len(old) + 1
                            ELSE ProcessorConfig.speed_smoothing_window
                /\ \E raw \in WinSamples :
                       10 * w[Len(w)] = raw.speed_mps * MpsToKmhTimes10 * KmhScale
                /\ \A i \in 1..kept : w[i] = old[Len(old) - kept + i]
                /\ \A v \in DOMAIN speed_windows \ {u} :
                       speed_windows'[v] = speed_windows[v]
                /\ IF before.current_state = "idle"
                   THEN above <=> \/ after.speed_above_threshold_start # NoTime
                                  \/ after.current_state = "active"
                   ELSE ~above <=> \/ after.speed_below_threshold_start # NoTime
                                   \/ after.current_state = "idle"
         ]_vars

C33_Witness ==
    /\ last_op.op = "process_sensor_input"
    /\ last_op.note # "invalid"
    /\ DOMAIN speed_windows = {"u1"}
    /\ Len(speed_windows["u1"]) = ProcessorConfig.speed_smoothing_window
    /\ Len(motion_analyzers["u1"]) = ProcessorConfig.speed_smoothing_window + 1
    /\ speed_windows["u1"][1] > 0
    /\ Ctx("u1").speed_above_threshold_start = NoTime
    /\ Ctx("u1").current_state = "idle"

-----------------------------------------------------------------------------
(* Claims about the classifier, checked under SpecFn *)

\* C34: the score of each mode is computed with the stop-frequency factor
\* scored on stops per hour: stop_frequency (stops per minute) times 60 is
\* what is compared with the mode's stop_frequency_thresholds.
C34_StopsScoredPerHour ==
    (fn_out.op = "classify_transport_mode") =>
        \A i \in 1..Len(Modes) :
            LET f == fn_out.features
            IN  fn_out.ret.scores[i] =
                    (4 * _score_in_range(f.avg_speed_kmh, speed_thresholds[Modes[i]])
                     + 3 * _score_in_range(f.avg_acceleration,
                                           acceleration_thresholds[Modes[i]])
                     + 3 * _score_in_range(60 * f.stop_frequency,
                                           stop_frequency_thresholds[Modes[i]]))
                        \div 10

\* C35: for a feature vector of non-negative values every mode's score is in
\* [0, 1], the mode returned has the highest of the five scores, the
\* confidence is that score, and the result is a function of the vector.
C35_ArgMaxOfBoundedScores ==
    (fn_out.op = "classify_transport_mode") =>
        LET r == fn_out.ret
        IN  /\ \A i \in 1..Len(Modes) : 0 <= r.scores[i] /\ r.scores[i] <= ScoreScale
            /\ \E i \in 1..Len(Modes) :
                   /\ r.mode = Modes[i]
                   /\ r.confidence = r.scores[i]
                   /\ \A j \in 1..Len(Modes) : r.scores[j] <= r.scores[i]
            /\ r = classify_transport_mode(fn_out.features)

C35_Witness ==
    /\ fn_out.op = "classify_transport_mode"
    /\ fn_out.ret.mode = "car"
    /\ fn_out.ret.confidence > 0
    /\ fn_out.ret.confidence < ScoreScale
    /\ \E i \in 1..Len(Modes) :
           Modes[i] # "car" /\ fn_out.ret.scores[i] > 0

-----------------------------------------------------------------------------
(* Claims about the persisted trips, checked under SpecNum *)

\* C36: whenever the points of a finalized trip are saved, the lookup by
\* trip number that precedes the save yields the row of that trip's own
\* record and no other row, so that the points are attached to the id of
\* their own trip, also when another trip started within the same second.
C36_PointsAttachedToOwnTrip ==
    \A k \in 2..Len(db) :
        (db[k].call = "save_trip_points") =>
            /\ k - 1 \in TripRows(db)
            /\ db[k - 1].trip_id = db[k].trip_id
            /\ LookupRows(SubSeq(db, 1, k - 1), RowTripNumber(db, k - 1)) = {k - 1}

-----------------------------------------------------------------------------
(* Further claims about one state machine, checked under SpecSM *)

\* C37: the speed-above timer is set only while the machine is Idle and the
\* speed-below timer only while it is Active, and every step that changes
\* the state, by a sample or by a manual call, leaves both timers unset.
C37_TimersBelongToTheirState ==
    /\ [](/\ sm.context.speed_above_threshold_start # NoTime => SmIdle
          /\ sm.context.speed_below_threshold_start # NoTime => SmActive)
    /\ [][(ToIdle \/ ToActive) =>
            /\ sm'.context.speed_above_threshold_start = NoTime
            /\ sm'.context.speed_below_threshold_start = NoTime
         ]_vars

C37_Witness ==
    /\ SmActive
    /\ sm_op.op = "sample"
    /\ sm_op.state_changed
    /\ sm.context.speed_above_threshold_start = NoTime
    /\ sm.context.speed_below_threshold_start = NoTime

-----------------------------------------------------------------------------
(* Further claims about the recorder's coroutines, checked under SpecRecCo *)

\* C38: a point is appended to a record's buffer only while its status is
\* 'recording': a step taken while the record is processing, completed or in
\* error leaves its buffer as it was, and the points a stop persists are the
\* buffer its summary describes (same count, same last latitude).
C38_AppendOnlyWhileRecording ==
    [][/\ \A t \in DOMAIN active_trips \cap DOMAIN active_trips' :
              active_trips[t].status # "recording"
                  => active_trips'[t].gps_points = active_trips[t].gps_points
       /\ (last_op'.op = "stop_resumes" /\ Len(db') = Len(db) + 1) =>
              LET pts == db'[Len(db')].points
                  data == summary'.data
              IN  /\ summary'.kind = "data"
                  /\ data.gps_points_count = Len(pts)
                  /\ data.end_latitude = pts[Len(pts)].latitude
      ]_vars

-----------------------------------------------------------------------------
(* Further claims about the orchestrator, checked under Spec *)

\* C39: whenever no recorder start or stop task is pending, every open record
\* and every live heartbeat is of the trip a registered user's machine is in:
\* that machine is Active with the record's trip id.
OwnedByActiveMachine(t) ==
    \E u \in DOMAIN user_machines :
        /\ user_machines[u].context.current_state = "active"
        /\ user_machines[u].context.trip_id = t

C39_OpenRecordsBelongToActiveTrips ==
    loop_tasks = <<>> =>
        /\ \A t \in DOMAIN active_trips : OwnedByActiveMachine(t)
        /\ \A h \in heartbeats : h.state = "live" => OwnedByActiveMachine(h.trip_id)

-----------------------------------------------------------------------------
(* Further claims about sample streams, checked under SpecStream *)

\* C40: a sample that passes the normalizer's validation and is fed to the
\* machine while a trip is Active is never rejected by the recorder's own
\* validation of its coordinates and accuracy.
C40_ValidSamplesPassRecorder ==
    (last_op.op = "process_sensor_input" /\ last_op.ok)
        => last_op.note # "invalid_point"

====
